---- MODULE Spec2Model ----
(***************************************************************************)
(* Contact form of EOPeak_Form: the validator (src/unnamed/part_001), the  *)
(* submission pipeline FormHandler, its draft store and message element,   *)
(* the iframe bridge and the social carousel (all in                       *)
(* src/scripts/social-carousel.js), and the Apps Script web app that       *)
(* receives the submissions (src/GoogleScript/Code.gs).                    *)
(*                                                                         *)
(* Strings are sequences of one-character strings.  Times are in ms.       *)
(* localStorage is taken to be available: getItem/setItem do not throw.    *)
(***************************************************************************)
EXTENDS Integers, Sequences, FiniteSets, TLC

(***************************************************************************)
(* Bounds of the model.                                                    *)
(***************************************************************************)
TickMs == 20500
MaxTicks == 5
MaxReenableTimers == 2
MaxSuffix == 2
MaxManualLoops == 1
MaxDelayTimers == 1
MaxResizePasses == 1
MaxRapidClicks == 2
MaxRequests == 2
MaxServerTicks == 1
MaxBridgeTicks == 3
MaxMessageLen == 3
BridgeTickMs == 60
ServerTickS == 60

StartNow == 2 * TickMs
MaxNow == StartNow + MaxTicks * TickMs

(***************************************************************************)
(* AppConfig (src/unnamed/part_002) and the literals of submitForm.        *)
(***************************************************************************)
nameMinLength == 2
nameMaxLength == 100
phoneMinDigits == 7
phoneMaxDigits == 15
messageMinLength == 10
messageMaxLength == 2000
retryMaxAttempts == 3
retryInitialDelayMs == 600
retryBackoffFactor == 2
retryMaxDelayMs == 4000
baseCooldown == 5000
maxCooldown == 60000

(***************************************************************************)
(* Character classes used by the validation patterns.                      *)
(***************************************************************************)
Letters == {"J", "o", "a", "b", "c", "d", "e", "f", "g", "h", "i", "j", "x"}
Digits == {"0", "1", "2", "3", "4", "5", "6", "7", "8", "9"}
Whitespace == {" "}

Min(a, b) == IF a < b THEN a ELSE b
Max(a, b) == IF a > b THEN a ELSE b

RECURSIVE Pow(_, _)
Pow(b, n) == IF n <= 0 THEN 1 ELSE b * Pow(b, n - 1)

\* Math.ceil(x / d) for integers x and d > 0
CeilDiv(x, d) == IF x % d = 0 THEN x \div d ELSE (x \div d) + 1

RECURSIVE TrimLeft(_)
TrimLeft(s) == IF s # << >> /\ Head(s) \in Whitespace THEN TrimLeft(Tail(s)) ELSE s

RECURSIVE TrimRight(_)
TrimRight(s) ==
  IF s # << >> /\ s[Len(s)] \in Whitespace THEN TrimRight(SubSeq(s, 1, Len(s) - 1)) ELSE s

\* String.prototype.trim
Trim(s) == TrimRight(TrimLeft(s))

\* FormValidator.sanitizeInput: the value is assigned to textContent of a
\* fresh element and read back from textContent, which returns the same text.
sanitizeInput(s) == s

AllIn(s, class) == \A i \in 1..Len(s) : s[i] \in class

\* value.replace(/\D+/g, '').length
DigitCount(s) == Cardinality({i \in 1..Len(s) : s[i] \in Digits})

\* /^[a-zA-Z\s'-]+$/
NamePattern(s) == Len(s) > 0 /\ AllIn(s, Letters \cup Whitespace \cup {"'", "-"})

\* /^[0-9+()\-\.\s]+$/
PhoneAllowedPattern(s) ==
  Len(s) > 0 /\ AllIn(s, Digits \cup Whitespace \cup {"+", "(", ")", "-", "."})

\* /^[^\s@]+@[^\s@]+\.[^\s@]+$/
EmailPattern(s) ==
  \E at \in 1..Len(s) : \E dot \in 1..Len(s) :
    /\ s[at] = "@"
    /\ s[dot] = "."
    /\ at > 1
    /\ dot > at + 1
    /\ dot < Len(s)
    /\ \A i \in 1..Len(s) : i # at => s[i] \notin (Whitespace \cup {"@"})

\* value.includes('..') || value.startsWith('.') || value.startsWith('@')
EmailTypo(s) ==
  \/ \E i \in 1..(Len(s) - 1) : s[i] = "." /\ s[i + 1] = "."
  \/ (Len(s) > 0 /\ s[1] = ".")
  \/ (Len(s) > 0 /\ s[1] = "@")

(***************************************************************************)
(* FormValidator.  errors maps a field to its message; NoError = absent.   *)
(***************************************************************************)
Fields == {"name", "phone", "email", "message"}
NoError == "none"

setError(errs, fieldName, message) == [errs EXCEPT ![fieldName] = message]

\* a setSuccess that leaves the entry of the field in the error map
setSuccessKeepsEntry(errs, fieldName) == errs

setSuccess(errs, fieldName) == [errs EXCEPT ![fieldName] = NoError]

\* validateName with the pattern tested before the length bounds
validateNamePatternFirst(errs, raw) ==
  LET value == sanitizeInput(Trim(raw)) IN
  IF value = << >> THEN [ok |-> FALSE, errors |-> setError(errs, "name", "required")]
  ELSE IF ~NamePattern(value)
    THEN [ok |-> FALSE, errors |-> setError(errs, "name", "pattern")]
  ELSE IF Len(value) < nameMinLength
    THEN [ok |-> FALSE, errors |-> setError(errs, "name", "minLength")]
  ELSE IF Len(value) > nameMaxLength
    THEN [ok |-> FALSE, errors |-> setError(errs, "name", "maxLength")]
  ELSE [ok |-> TRUE, errors |-> setSuccess(errs, "name")]

validateName(errs, raw) ==
  LET value == sanitizeInput(Trim(raw)) IN
  IF value = << >> THEN [ok |-> FALSE, errors |-> setError(errs, "name", "required")]
  ELSE IF Len(value) < nameMinLength
    THEN [ok |-> FALSE, errors |-> setError(errs, "name", "minLength")]
  ELSE IF Len(value) > nameMaxLength
    THEN [ok |-> FALSE, errors |-> setError(errs, "name", "maxLength")]
  ELSE IF ~NamePattern(value)
    THEN [ok |-> FALSE, errors |-> setError(errs, "name", "pattern")]
  ELSE [ok |-> TRUE, errors |-> setSuccess(errs, "name")]

\* validatePhone without the allowed-characters test
validatePhoneDigitsOnly(errs, raw) ==
  LET value == sanitizeInput(Trim(raw)) IN
  IF value = << >> THEN [ok |-> FALSE, errors |-> setError(errs, "phone", "required")]
  ELSE IF DigitCount(value) < phoneMinDigits \/ DigitCount(value) > phoneMaxDigits
    THEN [ok |-> FALSE, errors |-> setError(errs, "phone", "digits")]
  ELSE [ok |-> TRUE, errors |-> setSuccess(errs, "phone")]

validatePhone(errs, raw) ==
  LET value == sanitizeInput(Trim(raw)) IN
  IF value = << >> THEN [ok |-> FALSE, errors |-> setError(errs, "phone", "required")]
  ELSE IF ~PhoneAllowedPattern(value)
    THEN [ok |-> FALSE, errors |-> setError(errs, "phone", "pattern")]
  ELSE IF DigitCount(value) < phoneMinDigits \/ DigitCount(value) > phoneMaxDigits
    THEN [ok |-> FALSE, errors |-> setError(errs, "phone", "digits")]
  ELSE [ok |-> TRUE, errors |-> setSuccess(errs, "phone")]

validateEmail(errs, raw) ==
  LET value == sanitizeInput(Trim(raw)) IN
  IF value = << >> THEN [ok |-> FALSE, errors |-> setError(errs, "email", "required")]
  ELSE IF ~EmailPattern(value)
    THEN [ok |-> FALSE, errors |-> setError(errs, "email", "invalid")]
  ELSE IF EmailTypo(value)
    THEN [ok |-> FALSE, errors |-> setError(errs, "email", "invalid")]
  ELSE [ok |-> TRUE, errors |-> setSuccess(errs, "email")]

validateMessage(errs, raw) ==
  LET value == sanitizeInput(Trim(raw)) IN
  IF value = << >> THEN [ok |-> FALSE, errors |-> setError(errs, "message", "required")]
  ELSE IF Len(value) < messageMinLength
    THEN [ok |-> FALSE, errors |-> setError(errs, "message", "minLength")]
  ELSE IF Len(value) > messageMaxLength
    THEN [ok |-> FALSE, errors |-> setError(errs, "message", "maxLength")]
  ELSE [ok |-> TRUE, errors |-> setSuccess(errs, "message")]

\* validateForm with a short-circuiting conjunction: a failing field stops
\* the later validations from running.
validateFormShortCircuit(errs, form) ==
  LET n == validateName(errs, form.name) IN
  IF ~n.ok THEN n ELSE
  LET p == validatePhone(n.errors, form.phone) IN
  IF ~p.ok THEN p ELSE
  LET e == validateEmail(p.errors, form.email) IN
  IF ~e.ok THEN e ELSE validateMessage(e.errors, form.message)

validateForm(errs, form) ==
  LET isName == validateName(errs, form.name)
      isPhone == validatePhone(isName.errors, form.phone)
      isEmail == validateEmail(isPhone.errors, form.email)
      isMessage == validateMessage(isEmail.errors, form.message)
  IN [ok |-> isName.ok /\ isPhone.ok /\ isEmail.ok /\ isMessage.ok,
      errors |-> isMessage.errors]

(***************************************************************************)
(* Field contents the user may have typed when a submit attempt arrives.   *)
(***************************************************************************)
ValidForm ==
  [name |-> <<"J", "o">>,
   phone |-> <<"1", "2", "3", "-", "4", "5", "6", "7">>,
   email |-> <<"a", "@", "b", ".", "c">>,
   message |-> <<"h", "e", "j", " ", "h", "e", "j", " ", "h", "i">>]
InvalidForm ==
  [name |-> <<"J">>,
   phone |-> <<"1", "2", "3", "-", "4", "5", "6">>,
   email |-> <<"a", "@", "b">>,
   message |-> <<"h", "i">>]

\* the forms tried: every field right, exactly one field wrong, two neighbouring
\* fields wrong, every field wrong
WrongFields ==
  {{}, {"name"}, {"phone"}, {"email"}, {"message"}, {"name", "phone"}, {"email", "message"},
   {"name", "phone", "email", "message"}}
FormInputs ==
  {[name |-> IF "name" \in wrong THEN InvalidForm.name ELSE ValidForm.name,
    phone |-> IF "phone" \in wrong THEN InvalidForm.phone ELSE ValidForm.phone,
    email |-> IF "email" \in wrong THEN InvalidForm.email ELSE ValidForm.email,
    message |-> IF "message" \in wrong THEN InvalidForm.message ELSE ValidForm.message] :
     wrong \in WrongFields}

(***************************************************************************)
(* State.                                                                  *)
(***************************************************************************)
VARIABLES
  now,              \* Date.now()
  localStorage,     \* the two rate-limit keys; NoItem = key absent
  errors,           \* FormValidator.errors
  isSubmitting,     \* FormHandler.isSubmitting
  pc,               \* where the running submitForm is suspended
  attempt,          \* retryCorsRequest: attempt
  delay,            \* retryCorsRequest: delay
  corsTimer,        \* timeoutId is pending
  corsAborted,      \* controller.signal.aborted
  noCorsTimer,      \* noCorsTimeoutId is pending
  isJson,           \* content-type of the ok response includes application/json
  msg,              \* what #responseMessage shows
  messageTimeout,   \* the success auto-dismiss timer is pending
  loading,          \* submit button carries the loading class / aria-busy
  btnDisabled,      \* submitBtn.disabled
  reenableTimers,   \* pending "re-enable button after delay" timers
  embedded,         \* isEmbedded()
  posted,           \* lifecycle messages posted to the parent since the last FORM_SUBMIT_START
  ignoredInRun,     \* a submit attempt was ignored while the current run was in flight
  outcome,          \* branch in which the most recent submitForm run ended
  corsFailed,       \* the most recent run entered catch (corsError)
  corsOk,           \* some cors attempt of the current run returned an ok response
  corsSent,         \* fetch calls in cors mode made by the current run
  noCorsSent,       \* fetch calls in no-cors mode made by the current run
  activeRuns,       \* submitForm runs between entry and return
  consecFails,      \* failed submissions since the last success
  bodyRead,         \* the body that the most recent run read from its cors response
  nameInput,        \* document.getElementById('name').value
  phoneInput,       \* document.getElementById('phone').value
  returned,         \* what the most recent blur validation returned
  lastReturned,     \* per field, what its most recent validation since reset() returned
  carousel,         \* the SocialCarousel object
  reducedMotion,    \* matchMedia('(prefers-reduced-motion: reduce)').matches
  firstSetOffsetWidth,  \* offsetWidth of a set of buttons as the style sheet lays it out
  draft,            \* the form's fields, the draft key of localStorage, persistDebounceId
  bridge,           \* the iframe bridge of the embedded form and what its parent sees
  server,           \* the Apps Script web app: executions of doPost, cache, sheet, mail
  responseMessage   \* the text of the message span inside #responseMessage, as markup

netVars == <<pc, attempt, delay, corsTimer, corsAborted, noCorsTimer, isJson>>
uiVars == <<msg, messageTimeout, loading, btnDisabled, reenableTimers>>
runVars == <<outcome, corsOk, corsFailed, corsSent, noCorsSent, activeRuns, consecFails,
            bodyRead>>
validatorVars == <<nameInput, phoneInput, returned, lastReturned>>

\* what the submission pipeline never writes
carouselVars == <<carousel, reducedMotion, firstSetOffsetWidth>>

\* the other side of the window boundary and of the network, and the
\* markup of the message element
elsewhere == <<bridge, server, responseMessage>>

outside == <<embedded, validatorVars, carouselVars, draft, elsewhere>>

\* what the field validators never write
formVars == <<now, localStorage, isSubmitting, netVars, uiVars, embedded, posted, ignoredInRun,
             runVars, draft, elsewhere>>

vars == <<now, localStorage, errors, isSubmitting, netVars, uiVars, embedded, posted,
          ignoredInRun, runVars, validatorVars, carouselVars, draft, elsewhere>>

cooldownKey == "form_submission_cooldown"
attemptsKey == "form_submission_attempts"
NoItem == -1

\* parseInt(localStorage.getItem(key) || '0', 10)
getItemInt(store, key) == IF store[key] = NoItem THEN 0 ELSE store[key]

NoMsg == [type |-> "none", text |-> "none", secs |-> 0]
Message(type, text) == [type |-> type, text |-> text, secs |-> 0]

NoErrors == [f \in Fields |-> NoError]

FormInit ==
  /\ now = StartNow
  /\ localStorage = [k \in {cooldownKey, attemptsKey} |-> NoItem]
  /\ errors = NoErrors
  /\ isSubmitting = FALSE
  /\ pc = "idle"
  /\ attempt = 0
  /\ delay = retryInitialDelayMs
  /\ corsTimer = FALSE
  /\ corsAborted = FALSE
  /\ noCorsTimer = FALSE
  /\ isJson = FALSE
  /\ msg = NoMsg
  /\ messageTimeout = FALSE
  /\ loading = FALSE
  /\ btnDisabled = FALSE
  /\ reenableTimers = 0
  /\ embedded \in BOOLEAN
  /\ posted = << >>
  /\ ignoredInRun = FALSE
  /\ outcome = "none"
  /\ corsOk = FALSE
  /\ corsFailed = FALSE
  /\ corsSent = 0
  /\ noCorsSent = 0
  /\ activeRuns = 0
  /\ consecFails = 0
  /\ bodyRead = "none"

NotValidated == "none"

\* the fields are empty when the page has loaded
FieldsEmpty ==
  /\ nameInput = << >>
  /\ phoneInput = << >>
  /\ returned = NotValidated
  /\ lastReturned = [f \in Fields |-> NotValidated]

(***************************************************************************)
(* IframeIntegration.notifySubmitStart / notifySubmitEnd / notifySubmission*)
(***************************************************************************)
safePostMessage(log, message) == IF embedded THEN Append(log, message) ELSE log

(***************************************************************************)
(* submitForm, lines 1229-1245: the cooldown of the rate-limit check.      *)
(***************************************************************************)
\* the backoff without the 60 s cap
backoffUncapped(attempts) == baseCooldown * Pow(2, Max(0, attempts - 1))

backoff(attempts) == Min(maxCooldown, baseCooldown * Pow(2, Max(0, attempts - 1)))

remaining(store, t) ==
  (getItemInt(store, cooldownKey) + backoff(getItemInt(store, attemptsKey))) - t

(***************************************************************************)
(* handleSubmit and the synchronous head of submitForm, up to the first    *)
(* await (the first fetch of retryCorsRequest).                            *)
(***************************************************************************)
\* a guard that lets a second submission through
DoubleSubmitGuardOff == FALSE

DoubleSubmitGuard == isSubmitting

Ignore ==
  /\ ignoredInRun' = TRUE
  /\ UNCHANGED <<now, localStorage, errors, isSubmitting, netVars, uiVars, outside,
                 posted, runVars>>

Invalid(v) ==
  /\ errors' = v.errors
  /\ msg' = Message("error", "correct-errors")
  /\ messageTimeout' = FALSE
  /\ UNCHANGED <<now, localStorage, isSubmitting, netVars, loading, btnDisabled,
                 reenableTimers, outside, posted, ignoredInRun, runVars>>

\* a refusal that returns without resetting the in-flight flag
RefuseStaysSubmitting(v, rem) ==
  /\ errors' = v.errors
  /\ loading' = FALSE
  /\ btnDisabled' = FALSE
  /\ isSubmitting' = TRUE
  /\ msg' = [type |-> "error", text |-> "please-wait", secs |-> CeilDiv(rem, 1000)]
  /\ messageTimeout' = FALSE
  /\ UNCHANGED <<now, localStorage, netVars, reenableTimers, outside, posted, ignoredInRun,
                 runVars>>

Refuse(v, rem) ==
  /\ errors' = v.errors
  /\ loading' = FALSE
  /\ btnDisabled' = FALSE
  /\ isSubmitting' = FALSE
  /\ msg' = [type |-> "error", text |-> "please-wait", secs |-> CeilDiv(rem, 1000)]
  /\ messageTimeout' = FALSE
  /\ UNCHANGED <<now, localStorage, netVars, reenableTimers, outside, posted, ignoredInRun,
                 runVars>>

Start(v) ==
  /\ reenableTimers < MaxReenableTimers
  /\ errors' = v.errors
  /\ isSubmitting' = TRUE
  /\ activeRuns' = activeRuns + 1
  /\ loading' = TRUE
  /\ btnDisabled' = TRUE
  /\ msg' = Message("info", "submitting")
  /\ messageTimeout' = FALSE
  /\ posted' = safePostMessage(<< >>, "FORM_SUBMIT_START")
  /\ corsTimer' = TRUE
  /\ corsAborted' = FALSE
  /\ attempt' = 0
  /\ delay' = retryInitialDelayMs
  /\ pc' = "cors"
  /\ corsSent' = 1
  /\ noCorsSent' = 0
  /\ corsOk' = FALSE
  /\ corsFailed' = FALSE
  /\ outcome' = "none"
  /\ bodyRead' = "none"
  /\ ignoredInRun' = FALSE
  /\ UNCHANGED <<now, localStorage, noCorsTimer, isJson, reenableTimers, outside, consecFails>>

\* lines 1154-1168 for the field contents form: validation, then submitForm
validateAndSubmit(form) ==
  LET v == validateForm(errors, form) IN
  IF ~v.ok THEN Invalid(v)
  ELSE LET rem == remaining(localStorage, now) IN
       IF rem > 0 THEN Refuse(v, rem) ELSE Start(v)

\* the guard is tested before the fields are read
handleSubmit ==
  IF DoubleSubmitGuard THEN Ignore ELSE \E form \in FormInputs : validateAndSubmit(form)

\* form.addEventListener('submit', ...)
FormSubmitEvent == handleSubmit

\* Ctrl/Cmd+Enter: dispatches a submit event unless a submission is in flight
KeyboardShortcut == IF isSubmitting THEN Ignore ELSE handleSubmit

(***************************************************************************)
(* handleNetworkError: the text shown for the error that reached the outer *)
(* catch of submitForm.  Only two errors can reach it: the Error thrown    *)
(* at line 1348 and the TypeError of reading result.status of null.        *)
(***************************************************************************)
NetworkRequestFailed ==
  [name |-> "Error", message |-> "Network request failed. Please check your connection."]
NullResult ==
  [name |-> "TypeError", message |-> "Cannot read properties of null (reading 'status')"]

\* which of the needles tested by handleNetworkError occur in the message
\* (String.prototype.includes is case-sensitive)
Needles(message) ==
  CASE message = NetworkRequestFailed.message -> {}
    [] message = NullResult.message -> {}
    [] OTHER -> {}

handleNetworkError(error) ==
  IF error.name = "AbortError" THEN "timed-out"
  ELSE IF Needles(error.message) \cap {"CORS", "Failed to fetch"} # {} THEN "connection-issue"
  ELSE IF Needles(error.message) \cap {"network", "fetch"} # {} THEN "unable-to-connect"
  ELSE "network-error"

(***************************************************************************)
(* Draft persistence, lines 1695-1737.  draft.fields are the values of the *)
(* four form controls, draft.stored holds the parsed value of the draft    *)
(* key of localStorage ({} = key absent), draft.persistDebounceId says     *)
(* whether the save timer is pending.  draft.sinceSuccess is history of    *)
(* the draft store: a submission of the edited form has ended in           *)
(* handleSuccess and no input event has been handled since.                *)
(***************************************************************************)
FieldTexts == {<< >>, <<"J">>}

NoDraft ==
  [fields |-> [f \in Fields |-> << >>], stored |-> {}, persistDebounceId |-> FALSE,
   sinceSuccess |-> FALSE]

\* clearTimeout(this.persistDebounceId); setTimeout(() => this.saveDraft(), 300)
debouncedSaveDraft(d) == [d EXCEPT !.persistDebounceId = TRUE]

\* the JSON of the four current values is written, empty values included
saveDraft(d) == [d EXCEPT !.stored = {d.fields}]

clearDraft(d) == [d EXCEPT !.stored = {}]

\* handleSuccess, lines 1418-1425: form.reset() assigns the default (empty)
\* values and dispatches no input or change event; then clearDraft()
handleSuccess(d) == clearDraft([d EXCEPT !.fields = NoDraft.fields])

(***************************************************************************)
(* The end of a submitForm run: lines 1352-1396.                           *)
(***************************************************************************)
\* finally
Finally(log) ==
  /\ loading' = FALSE
  /\ btnDisabled' = FALSE
  /\ isSubmitting' = FALSE
  /\ activeRuns' = activeRuns - 1
  /\ reenableTimers' = reenableTimers + 1
  /\ posted' = safePostMessage(log, "FORM_SUBMIT_END")
  /\ pc' = "idle"
  /\ ignoredInRun' = FALSE
  /\ corsOk' = FALSE
  /\ corsSent' = 0
  /\ noCorsSent' = 0

\* result.status === 'success': handleSuccess, then the counter reset
SuccessBranch ==
  /\ outcome' = "success"
  /\ msg' = Message("success", "server-message")
  /\ messageTimeout' = TRUE
  /\ errors' = NoErrors
  /\ draft' = handleSuccess(draft)
  /\ localStorage' = [localStorage EXCEPT ![attemptsKey] = 0, ![cooldownKey] = now]
  /\ consecFails' = 0
  /\ Finally(safePostMessage(posted, "FORM_SUBMITTED:true"))

\* a pending branch that counts the submission as a failure
PendingBranchCounted ==
  /\ outcome' = "pending"
  /\ msg' = Message("info", "awaiting-confirmation")
  /\ messageTimeout' = FALSE
  /\ localStorage' = [localStorage EXCEPT
                        ![attemptsKey] = getItemInt(localStorage, attemptsKey) + 1,
                        ![cooldownKey] = now]
  /\ UNCHANGED <<errors, draft, consecFails>>
  /\ Finally(posted)

\* result.status === 'pending'
PendingBranch ==
  /\ outcome' = "pending"
  /\ msg' = Message("info", "awaiting-confirmation")
  /\ messageTimeout' = FALSE
  /\ UNCHANGED <<errors, draft, localStorage, consecFails>>
  /\ Finally(posted)

\* an error branch that forgets to count the failure
ErrorBranchNoCount ==
  /\ outcome' = "error"
  /\ msg' = Message("error", "server-message")
  /\ messageTimeout' = FALSE
  /\ localStorage' = [localStorage EXCEPT ![cooldownKey] = now]
  /\ consecFails' = consecFails + 1
  /\ UNCHANGED <<errors, draft>>
  /\ Finally(safePostMessage(posted, "FORM_SUBMITTED:false"))

\* any other result: handleError, then the counter increment
ErrorBranch ==
  /\ outcome' = "error"
  /\ msg' = Message("error", "server-message")
  /\ messageTimeout' = FALSE
  /\ localStorage' = [localStorage EXCEPT
                        ![attemptsKey] = getItemInt(localStorage, attemptsKey) + 1,
                        ![cooldownKey] = now]
  /\ consecFails' = consecFails + 1
  /\ UNCHANGED <<errors, draft>>
  /\ Finally(safePostMessage(posted, "FORM_SUBMITTED:false"))

\* catch (error): handleNetworkError, then the counter increment
NetworkErrorBranch(error) ==
  /\ outcome' = "network"
  /\ msg' = Message("error", handleNetworkError(error))
  /\ messageTimeout' = FALSE
  /\ localStorage' = [localStorage EXCEPT
                        ![attemptsKey] = getItemInt(localStorage, attemptsKey) + 1,
                        ![cooldownKey] = now]
  /\ consecFails' = consecFails + 1
  /\ UNCHANGED <<errors, draft>>
  /\ Finally(posted)

(***************************************************************************)
(* What a response body can be, as far as submitForm distinguishes it.     *)
(***************************************************************************)
Bodies == {"status-success", "status-pending", "status-error", "no-status", "null", "not-json"}

\* result handling without the pending branch
HandleResultNoPending(body) ==
  CASE body = "status-success" -> SuccessBranch
    [] body = "null" -> NetworkErrorBranch(NullResult)
    [] OTHER -> ErrorBranch

\* the branch taken for a parsed JSON value
HandleResult(body) ==
  CASE body = "status-success" -> SuccessBranch
    [] body = "status-pending" -> PendingBranch
    [] body = "null" -> NetworkErrorBranch(NullResult)
    [] OTHER -> ErrorBranch

(***************************************************************************)
(* catch (corsError), lines 1318-1336: the no-cors request is issued.      *)
(***************************************************************************)
FallBackToNoCors ==
  /\ corsTimer' = FALSE
  /\ corsFailed' = TRUE
  /\ noCorsTimer' = TRUE
  /\ noCorsSent' = noCorsSent + 1
  /\ pc' = "nocors"

(***************************************************************************)
(* retryCorsRequest, lines 1680-1688: the catch of one failed attempt.     *)
(* timerPending says whether timeoutId is still pending afterwards.        *)
(***************************************************************************)
\* a catch that breaks one attempt later
RetryCatchOneMore(timerPending) ==
  /\ attempt' = attempt + 1
  /\ IF attempt + 1 > retryMaxAttempts
     THEN FallBackToNoCors
     ELSE /\ pc' = "sleep"
          /\ corsTimer' = timerPending
          /\ UNCHANGED <<corsFailed, noCorsTimer, noCorsSent>>

RetryCatch(timerPending) ==
  /\ attempt' = attempt + 1
  /\ IF attempt + 1 >= retryMaxAttempts
     THEN FallBackToNoCors
     ELSE /\ pc' = "sleep"
          /\ corsTimer' = timerPending
          /\ UNCHANGED <<corsFailed, noCorsTimer, noCorsSent>>

midRun == <<now, localStorage, errors, isSubmitting, uiVars, outside, posted, ignoredInRun,
            outcome, activeRuns, consecFails, bodyRead>>

\* the no-cors fetch that settled leaves noCorsTimeoutId pending when it was
\* rejected; the abort of a settled request has no effect, so the model drops
\* the timer with the request.

\* the pending cors fetch settles: ok response, non-ok response, or rejection
CorsFetchSettles ==
  /\ pc = "cors"
  /\ \E r \in {"ok", "http-error", "rejected"} :
       IF r = "ok"
       THEN /\ corsOk' = TRUE
            /\ corsTimer' = FALSE
            /\ pc' = "body"
            /\ isJson' \in BOOLEAN
            /\ UNCHANGED <<attempt, noCorsTimer, corsFailed, noCorsSent>>
       ELSE /\ RetryCatch(corsTimer)
            /\ UNCHANGED <<corsOk, isJson>>
  /\ UNCHANGED <<delay, corsAborted, corsSent>>
  /\ UNCHANGED midRun

\* setTimeout(() => controller.abort(), requestTimeout) fires; a fetch that
\* is pending on the signal rejects with an AbortError
RequestTimeout ==
  /\ corsTimer
  /\ corsAborted' = TRUE
  /\ IF pc = "cors"
     THEN RetryCatch(FALSE)
     ELSE /\ corsTimer' = FALSE
          /\ UNCHANGED <<attempt, pc, corsFailed, noCorsTimer, noCorsSent>>
  /\ UNCHANGED <<delay, corsSent, corsOk, isJson>>
  /\ UNCHANGED midRun

\* a retry loop whose delay does not grow
SleepDoneSameDelay ==
  /\ pc = "sleep"
  /\ delay' = delay
  /\ corsSent' = corsSent + 1
  /\ IF corsAborted
     THEN RetryCatch(corsTimer)
     ELSE /\ pc' = "cors"
          /\ UNCHANGED <<attempt, corsTimer, corsFailed, noCorsTimer, noCorsSent>>
  /\ UNCHANGED <<corsAborted, corsOk, isJson>>
  /\ UNCHANGED midRun

\* the backoff sleep ends and the next fetch is issued with the same signal;
\* on an aborted signal that fetch rejects at once
SleepDone ==
  /\ pc = "sleep"
  /\ delay' = Min(delay * retryBackoffFactor, retryMaxDelayMs)
  /\ corsSent' = corsSent + 1
  /\ IF corsAborted
     THEN RetryCatch(corsTimer)
     ELSE /\ pc' = "cors"
          /\ UNCHANGED <<attempt, corsTimer, corsFailed, noCorsTimer, noCorsSent>>
  /\ UNCHANGED <<corsAborted, corsOk, isJson>>
  /\ UNCHANGED midRun

\* locals of the run that ended
RunLocalsGone ==
  /\ attempt' = 0
  /\ delay' = retryInitialDelayMs
  /\ corsAborted' = FALSE
  /\ isJson' = FALSE

endRun == <<now, embedded, validatorVars, carouselVars, elsewhere, corsTimer, corsFailed>>

\* the optimistic variant: an opaque response counted as delivered
noCorsResultOptimistic == "status-success"

\* lines 1341-1344: the result reported for an opaque no-cors response
noCorsResult == "status-pending"

\* response.json() / response.text() settles with body (lines 1301-1317),
\* then the result is handled
BodyRead(body) ==
  /\ pc = "body"
  /\ IF body = "read-failed" \/ (isJson /\ body = "not-json")
     THEN \* the read rejects: catch (corsError)
          /\ FallBackToNoCors
          /\ UNCHANGED <<attempt, delay, corsAborted, isJson, corsOk, corsSent>>
          /\ UNCHANGED <<localStorage, errors, isSubmitting, uiVars, posted, outcome,
                         activeRuns, consecFails, ignoredInRun, now, outside, bodyRead>>
     ELSE /\ bodyRead' = body
          /\ IF body = "not-json" THEN SuccessBranch ELSE HandleResult(body)
          /\ RunLocalsGone
          /\ UNCHANGED noCorsTimer
          /\ UNCHANGED endRun

BodySettles == \E body \in Bodies \cup {"read-failed"} : BodyRead(body)

\* the no-cors fetch settles: opaque response or rejection
NoCorsFetchSettles ==
  /\ pc = "nocors"
  /\ \E r \in {"opaque", "rejected"} :
       IF r = "opaque"
       THEN HandleResult(noCorsResult)
       ELSE NetworkErrorBranch(NetworkRequestFailed)
  /\ noCorsTimer' = FALSE
  /\ RunLocalsGone
  /\ UNCHANGED <<bodyRead, endRun>>

\* setTimeout(() => noCorsController.abort(), requestTimeout) fires while the
\* no-cors fetch is pending: the fetch rejects
NoCorsTimeout ==
  /\ noCorsTimer
  /\ pc = "nocors"
  /\ noCorsTimer' = FALSE
  /\ NetworkErrorBranch(NetworkRequestFailed)
  /\ RunLocalsGone
  /\ UNCHANGED <<bodyRead, endRun>>

(***************************************************************************)
(* Timers of the UI and the clock.                                         *)
(***************************************************************************)
\* the timer set in finally: submitBtn.disabled = false
ReenableButton ==
  /\ reenableTimers > 0
  /\ reenableTimers' = reenableTimers - 1
  /\ btnDisabled' = FALSE
  /\ UNCHANGED <<now, localStorage, errors, isSubmitting, netVars, msg, messageTimeout,
                 loading, outside, posted, ignoredInRun, runVars>>

\* messageTimeout fires: hideMessage
HideMessage ==
  /\ messageTimeout
  /\ messageTimeout' = FALSE
  /\ msg' = NoMsg
  /\ UNCHANGED <<now, localStorage, errors, isSubmitting, netVars, loading, btnDisabled,
                 reenableTimers, outside, posted, ignoredInRun, runVars>>

Tick ==
  /\ now + TickMs <= MaxNow
  /\ now' = now + TickMs
  /\ UNCHANGED <<localStorage, errors, isSubmitting, netVars, uiVars, outside, posted,
                 ignoredInRun, runVars>>

Next ==
  \/ FormSubmitEvent
  \/ KeyboardShortcut
  \/ CorsFetchSettles
  \/ RequestTimeout
  \/ SleepDone
  \/ BodySettles
  \/ NoCorsFetchSettles
  \/ NoCorsTimeout
  \/ ReenableButton
  \/ HideMessage
  \/ Tick

(***************************************************************************)
(* Real-time validation (setupValidationListeners): one field holds a text *)
(* and the blur listeners of the name and phone fields run; the user may   *)
(* replace the text of a field, and reset() may be called.                 *)
(***************************************************************************)
NameChars == {"J", " ", "1", "-"}
PhoneChars == {"1", "-", " ", "a"}

Repeat(ch, n) == [i \in 1..n |-> ch]
Strings(chars, n) == UNION {[1..k -> chars] : k \in 0..n}

\* short names, and names around the maximum length
NameTexts ==
  {base \o suffix : base \in {<< >>, Repeat("o", nameMaxLength - 1)},
                    suffix \in Strings(NameChars, MaxSuffix)}

\* short phones, and phones around the two digit-count bounds
PhoneTexts ==
  {base \o suffix : base \in {<< >>, InvalidForm.phone, Repeat("2", phoneMinDigits - 1),
                              Repeat("2", phoneMaxDigits - 1)},
                    suffix \in Strings(PhoneChars, MaxSuffix)}

Bool(b) == IF b THEN "true" ELSE "false"

\* nameInput.addEventListener('blur', () => this.validateName())
nameBlur ==
  /\ LET r == validateName(errors, nameInput) IN
       /\ errors' = r.errors
       /\ returned' = Bool(r.ok)
       /\ lastReturned' = [lastReturned EXCEPT !["name"] = Bool(r.ok)]
  /\ UNCHANGED <<nameInput, phoneInput, formVars, carouselVars>>

\* phoneInput.addEventListener('blur', () => this.validatePhone())
phoneBlur ==
  /\ LET r == validatePhone(errors, phoneInput) IN
       /\ errors' = r.errors
       /\ returned' = Bool(r.ok)
       /\ lastReturned' = [lastReturned EXCEPT !["phone"] = Bool(r.ok)]
  /\ UNCHANGED <<nameInput, phoneInput, formVars, carouselVars>>

\* the user replaces the text of the name field:
\* nameInput.addEventListener('input', () => this.clearError('name'));
\* clearError touches the class of the field only
nameInputEvent ==
  /\ nameInput' \in {ValidForm.name, InvalidForm.name} \ {nameInput}
  /\ UNCHANGED <<phoneInput, returned, lastReturned, errors, formVars, carouselVars>>

\* phoneInput.addEventListener('input', () => this.clearError('phone'))
phoneInputEvent ==
  /\ phoneInput' \in {ValidForm.phone, InvalidForm.phone} \ {phoneInput}
  /\ UNCHANGED <<nameInput, returned, lastReturned, errors, formVars, carouselVars>>

\* FormValidator.reset(): this.errors = {}
validatorReset ==
  /\ errors' = NoErrors
  /\ lastReturned' = [f \in Fields |-> NotValidated]
  /\ UNCHANGED <<nameInput, phoneInput, returned, formVars, carouselVars>>

ValidatorNext ==
  \/ nameBlur
  \/ phoneBlur
  \/ nameInputEvent
  \/ phoneInputEvent
  \/ validatorReset

(***************************************************************************)
(* SocialCarousel.  The object is the record carousel; its methods are      *)
(* operators from a record to the record after the call.  Lengths of the    *)
(* track are in units of one automatic frame step (animationSpeed / 60 px). *)
(***************************************************************************)
speed == 1

\* the layout measured by performMeasurement: five buttons and the fixed
\* trailing button, 600 px in all
ButtonRectWidths == <<100, 100, 100, 100, 100>>
wrapperGap == 16
khamsatRectWidth == 20
ContainerWidths == {400, 600, 800}

\* the layout measured by calculateDimensionsImmediately: the width of a
\* set when the page has loaded, and the widths the style sheet gives it
initialSetOffsetWidth == 2
SetOffsetWidths == {initialSetOffsetWidth, 5}
trackGap == 1
firstButtonOffsetWidth == 1
firstSetGap == 1

RECURSIVE SumSeq(_)
SumSeq(s) == IF s = << >> THEN 0 ELSE Head(s) + SumSeq(Tail(s))

Abs(x) == IF x < 0 THEN -x ELSE x

NoTimer == -1
PendingTimer == 0

\* requestAnimationFrame callbacks
Callback(kind) == [kind |-> kind, start |-> 0, distance |-> 0, stale |-> FALSE]
animateScrollCallback(startPosition, distance) ==
  [kind |-> "animateScroll", start |-> startPosition, distance |-> distance, stale |-> FALSE]

NoEval == [total |-> -1, width |-> -1]

\* the object after the constructor and setup() have run
Constructed(reduced) ==
  [isCarouselMode |-> FALSE,
   carouselTrack |-> FALSE,          \* carouselTrack is not null
   isPaused |-> reduced,
   isManualScrolling |-> FALSE,
   isDestroying |-> FALSE,
   animationFrame |-> FALSE,         \* animationFrame is not null
   currentPosition |-> 0,
   setWidth |-> 0,
   gapBetweenSets |-> 0,
   setWidthWithGap |-> 0,
   buttonWidth |-> 0,
   resizeTimers |-> 0,               \* pending resize debounce timers
   manualScrollTimeout |-> NoTimer,  \* PendingTimer while the resume timer is pending
   visibilityTimers |-> 0,           \* pending timers of handleVisibilityChange
   focusTimers |-> 0,                \* pending timers of handlePageFocus
   rafQueue |-> <<Callback("checkAndToggleMode")>>,  \* callbacks requested for the next frame
   frame |-> << >>,                  \* callbacks of the running frame not yet run
   finishing |-> 0,                  \* manual loops whose duration has elapsed at this frame
   \* history of the most recent step
   overlap |-> FALSE,                \* animate moved currentPosition while an animateScroll loop was in progress
   beforeResume |-> FALSE,           \* ... while the manual resume timer was pending
   underReducedMotion |-> FALSE,     \* ... while reduced motion was preferred
   staleWrite |-> FALSE,             \* a callback requested before destroyCarousel wrote currentPosition
   corrections |-> {},               \* <<uncorrected, corrected>> of each wraparound correction
   lastEval |-> NoEval]              \* sizes of the mode evaluation that completed

\* the history fields as every handler finds them
Begin(c) ==
  [c EXCEPT !.overlap = FALSE, !.beforeResume = FALSE,
            !.underReducedMotion = FALSE, !.staleWrite = FALSE, !.corrections = {},
            !.lastEval = NoEval]

IsLoop(e) == e.kind = "animateScroll"
IsAuto(e) == e.kind = "animate"
manualLoops(c) == Len(SelectSeq(c.frame, IsLoop)) + Len(SelectSeq(c.rafQueue, IsLoop))
autoLoops(c) == Len(SelectSeq(c.frame, IsAuto)) + Len(SelectSeq(c.rafQueue, IsAuto))

\* the double-frame resumptions of handleResize that have not yet run
resizePasses(c) ==
  Len(SelectSeq(c.rafQueue, LAMBDA e : e.kind \in {"ensureOuter", "ensureInner"}))

\* cancelAnimationFrame(this.animationFrame)
cancelAnimationFrame(c) ==
  [c EXCEPT !.frame = SelectSeq(@, LAMBDA e : ~IsAuto(e)),
            !.rafQueue = SelectSeq(@, LAMBDA e : ~IsAuto(e))]

requestAnimationFrame(c, callback) == [c EXCEPT !.rafQueue = Append(@, callback)]

pause(c) ==
  LET c1 == [c EXCEPT !.isPaused = TRUE] IN
  IF c1.animationFrame THEN [cancelAnimationFrame(c1) EXCEPT !.animationFrame = FALSE] ELSE c1

\* a startAnimation that requests its frame without cancelling one
startAnimationNoCancel(c) ==
  IF ~c.isCarouselMode \/ ~c.carouselTrack \/ c.isPaused THEN c
  ELSE [requestAnimationFrame(c, Callback("animate")) EXCEPT !.animationFrame = TRUE]

startAnimation(c) ==
  IF ~c.isCarouselMode \/ ~c.carouselTrack \/ c.isPaused THEN c
  ELSE LET c1 == IF c.animationFrame THEN cancelAnimationFrame(c) ELSE c IN
       [requestAnimationFrame(c1, Callback("animate")) EXCEPT !.animationFrame = TRUE]

resume(c, reduced) ==
  IF ~c.isCarouselMode \/ ~c.carouselTrack THEN c
  ELSE IF reduced THEN c
  ELSE startAnimation([c EXCEPT !.isPaused = FALSE])

destroyCarousel(c) ==
  IF ~c.isCarouselMode \/ c.isDestroying THEN c
  ELSE LET \* the manual scrolls that it finds pending are marked for the history
           MarkStale(q) == [i \in 1..Len(q) |->
                              IF IsLoop(q[i]) THEN [q[i] EXCEPT !.stale = TRUE] ELSE q[i]]
           c1 == pause([c EXCEPT !.isDestroying = TRUE])
           c2 == [c1 EXCEPT !.isCarouselMode = FALSE, !.carouselTrack = FALSE,
                            !.frame = MarkStale(@), !.rafQueue = MarkStale(@)]
       IN requestAnimationFrame(c2, Callback("resetDestroying"))

calculateDimensionsImmediately(c) ==
  LET c1 == [c EXCEPT !.setWidthWithGap = firstSetOffsetWidth + trackGap,
                      !.setWidth = firstSetOffsetWidth,
                      !.gapBetweenSets = trackGap,
                      !.buttonWidth = firstButtonOffsetWidth + firstSetGap,
                      !.currentPosition = -(firstSetOffsetWidth + trackGap)]
  IN IF ~c1.isPaused /\ c1.isCarouselMode /\ ~c1.isManualScrolling
     THEN startAnimation(c1) ELSE c1

\* activateCarousel with createCarouselTrack
activateCarousel(c) ==
  IF c.isCarouselMode THEN c
  ELSE calculateDimensionsImmediately([c EXCEPT !.isCarouselMode = TRUE,
                                                !.carouselTrack = TRUE])

\* needsCarousel with a non-strict comparison
needsCarouselInclusive(totalWidth, width) == totalWidth >= width

needsCarousel(totalWidth, width) == totalWidth > width

totalWidth ==
  LET validButtons == Len(ButtonRectWidths)
      carouselButtonsWidth == SumSeq(ButtonRectWidths) + wrapperGap * Max(0, validButtons - 1)
      khamsatWidth == IF khamsatRectWidth > 0 THEN khamsatRectWidth + wrapperGap ELSE 0
  IN carouselButtonsWidth + khamsatWidth

performMeasurement(c, width) ==
  IF c.isDestroying THEN c
  ELSE IF width = 0 THEN c
  ELSE LET c1 == [c EXCEPT !.lastEval = [total |-> totalWidth, width |-> width]] IN
       IF needsCarousel(totalWidth, width) /\ ~c1.isCarouselMode THEN activateCarousel(c1)
       ELSE IF ~needsCarousel(totalWidth, width) /\ c1.isCarouselMode THEN destroyCarousel(c1)
       ELSE c1

checkAndToggleMode(c, width) ==
  IF c.isDestroying THEN c
  ELSE IF c.isCarouselMode
    THEN requestAnimationFrame(destroyCarousel(c), Callback("performMeasurement"))
    ELSE performMeasurement(c, width)

\* an ensureAutoRunAfterResize that leaves a paused carousel paused
ensureAutoRunUnlessPaused(c) == IF c.isCarouselMode /\ c.carouselTrack THEN startAnimation(c) ELSE c

ensureAutoRunAfterResize(c) ==
  IF c.isCarouselMode /\ c.carouselTrack
  THEN startAnimation([c EXCEPT !.isManualScrolling = FALSE, !.isPaused = FALSE])
  ELSE c

\* one run of the automatic loop's frame callback; e is its queue entry
animate(c, e) ==
  IF ~c.isCarouselMode \/ ~c.carouselTrack \/ c.isPaused
  THEN [c EXCEPT !.animationFrame = FALSE]
  ELSE LET c1 == IF c.setWidthWithGap = 0 \/ c.setWidth = 0
                 THEN [c EXCEPT !.setWidth = firstSetOffsetWidth,
                                !.gapBetweenSets = trackGap,
                                !.setWidthWithGap = firstSetOffsetWidth + trackGap]
                 ELSE c
       IN IF c1.isManualScrolling THEN [c1 EXCEPT !.animationFrame = FALSE]
          ELSE LET moved == c1.currentPosition - speed
                   reset == IF Abs(moved) >= c1.setWidthWithGap
                            THEN IF moved + c1.setWidthWithGap > 0
                                 THEN -(c1.setWidth + c1.gapBetweenSets)
                                 ELSE moved + c1.setWidthWithGap
                            ELSE moved
               IN requestAnimationFrame(
                    [c1 EXCEPT !.currentPosition = reset,
                               !.animationFrame = TRUE,
                               !.overlap = @ \/ manualLoops(c1) > 0,
                               !.beforeResume = @ \/ c1.manualScrollTimeout # NoTimer,
                               !.underReducedMotion = @ \/ reducedMotion,
                               !.staleWrite = @ \/ e.stale,
                               !.corrections = IF reset # moved
                                               THEN @ \cup {<<moved, reset>>} ELSE @],
                    Callback("animate"))

\* 1 - (1 - progress)^3 in halves: 1 once the duration has elapsed, and 1/2
\* at the frame before it
easeOutHalves(finished) == IF finished THEN 2 ELSE 1

\* one run of a manual scroll's frame callback; e carries startPosition and
\* distance, and the loop ends at the frame at which its duration has elapsed:
\* at the latest at the first frame after the resume timer, which is longer
\* than the duration, has fired
animateScroll(c, e) ==
  LET elapsed == c.manualScrollTimeout = NoTimer
      finished == elapsed \/ c.finishing > 0
      moved == e.start + ((e.distance * easeOutHalves(finished)) \div 2)
      looped == IF c.setWidthWithGap > 0 /\ Abs(moved) >= c.setWidthWithGap
                THEN moved + c.setWidthWithGap ELSE moved
      reset == IF c.setWidthWithGap > 0 /\ looped > 0
               THEN -(c.setWidth + c.gapBetweenSets) ELSE looped
      c1 == [c EXCEPT !.currentPosition = reset,
                      !.finishing = IF ~elapsed /\ @ > 0 THEN @ - 1 ELSE @,
                      !.staleWrite = @ \/ e.stale,
                      !.corrections = IF reset # moved THEN @ \cup {<<moved, reset>>} ELSE @]
  IN IF finished THEN c1 ELSE requestAnimationFrame(c1, e)


\* navigatePrev (direction = 1) and navigateNext (direction = -1), with
\* pauseManualNavigation, resumeAfterManualNavigation and smoothScrollTo
navigate(c, direction) ==
  IF ~c.isCarouselMode \/ ~c.carouselTrack \/ c.buttonWidth = 0 THEN c
  ELSE LET c1 == pause([c EXCEPT !.isManualScrolling = TRUE])
           c2 == [c1 EXCEPT !.manualScrollTimeout = PendingTimer]
           targetPosition == c2.currentPosition + direction * c2.buttonWidth
       IN requestAnimationFrame(
            [c2 EXCEPT !.isManualScrolling = TRUE],
            animateScrollCallback(c2.currentPosition, targetPosition - c2.currentPosition))

\* the callback of the manual resume timer, leaving a paused carousel paused
manualScrollTimeoutCallbackUnlessPaused(c, reduced) ==
  LET c1 == [c EXCEPT !.isManualScrolling = FALSE, !.manualScrollTimeout = NoTimer] IN
  IF c1.isCarouselMode /\ ~c1.isPaused THEN resume(c1, reduced) ELSE c1

\* the callback of the manual resume timer
manualScrollTimeoutCallback(c, reduced) ==
  LET c1 == [c EXCEPT !.isManualScrolling = FALSE, !.manualScrollTimeout = NoTimer] IN
  IF c1.isCarouselMode THEN resume([c1 EXCEPT !.isPaused = FALSE], reduced) ELSE c1

runCallback(c, e, width) ==
  CASE e.kind = "checkAndToggleMode" -> checkAndToggleMode(c, width)
    [] e.kind = "performMeasurement" -> performMeasurement(c, width)
    [] e.kind = "resetDestroying" -> [c EXCEPT !.isDestroying = FALSE]
    [] e.kind = "ensureOuter" -> requestAnimationFrame(c, Callback("ensureInner"))
    [] e.kind = "ensureInner" -> ensureAutoRunAfterResize(c)
    [] e.kind = "animate" -> animate(c, e)
    [] e.kind = "animateScroll" -> animateScroll(c, e)

\* what getBoundingClientRect can report for the wrapper to the callbacks
\* of q that measure it
MeasuredWidths(q) ==
  IF \E i \in 1..Len(q) : q[i].kind \in {"checkAndToggleMode", "performMeasurement"}
  THEN ContainerWidths ELSE {0}

\* the callbacks of one frame run in the order in which they were requested
RECURSIVE runFrame(_, _)
runFrame(c, width) ==
  IF c.frame = << >> THEN [c EXCEPT !.finishing = 0]
  ELSE runFrame(runCallback([c EXCEPT !.frame = Tail(@)], Head(c.frame), width), width)

notCarousel == <<errors, formVars, validatorVars, firstSetOffsetWidth>>

\* window resize: handleResize restarts the debounce timer
WindowResize ==
  /\ carousel' = [Begin(carousel) EXCEPT
                    !.resizeTimers = (@ - (IF @ > 0 THEN 1 ELSE 0)) + 1]
  /\ UNCHANGED <<reducedMotion, notCarousel>>

\* the resize debounce timer fires; width is what getBoundingClientRect
\* reports for the wrapper while the callback runs
ResizeTimeout ==
  /\ carousel.resizeTimers > 0
  /\ resizePasses(carousel) < MaxResizePasses
  /\ \E width \in ContainerWidths :
       LET c1 == [Begin(carousel) EXCEPT !.resizeTimers = @ - 1] IN
       carousel' = IF ~c1.isDestroying
                   THEN requestAnimationFrame(checkAndToggleMode(c1, width),
                                              Callback("ensureOuter"))
                   ELSE c1
  /\ UNCHANGED <<reducedMotion, notCarousel>>

\* a click on the prev button (direction = 1) or the next button
\* (direction = -1) while fewer than maxLoops manual scrolls are in progress
navClick(direction, maxLoops) ==
  /\ manualLoops(carousel) < maxLoops
  /\ carousel' = navigate(Begin(carousel), direction)
  /\ UNCHANGED <<reducedMotion, notCarousel>>

NavPrevClick == navClick(1, MaxManualLoops)

NavNextClick == navClick(-1, MaxManualLoops)

\* clicks in quick succession: a click may come while the scrolls of
\* earlier clicks are in progress
RapidPrevClick == navClick(1, MaxRapidClicks)

RapidNextClick == navClick(-1, MaxRapidClicks)

\* the manual resume timer fires
ManualScrollTimeout ==
  /\ carousel.manualScrollTimeout = PendingTimer
  /\ carousel' = manualScrollTimeoutCallback(Begin(carousel), reducedMotion)
  /\ UNCHANGED <<reducedMotion, notCarousel>>

\* handleMouseEnter that pauses on every device
handleMouseEnterAnyDevice(c, matches) == pause(c)

\* matches is matchMedia('(hover: hover)').matches as the handler finds it
handleMouseEnter(c, matches) == IF matches THEN pause(c) ELSE c

handleMouseLeave(c, matches, reduced) == IF matches THEN resume(c, reduced) ELSE c

mouseEnter(matches) ==
  /\ carousel' = handleMouseEnter(Begin(carousel), matches)
  /\ UNCHANGED <<reducedMotion, notCarousel>>

mouseLeave(matches) ==
  /\ carousel' = handleMouseLeave(Begin(carousel), matches, reducedMotion)
  /\ UNCHANGED <<reducedMotion, notCarousel>>

MouseEnter == \E matches \in BOOLEAN : mouseEnter(matches)

MouseLeave == \E matches \in BOOLEAN : mouseLeave(matches)

\* the prefers-reduced-motion media query changes
ReducedMotionChange ==
  /\ reducedMotion' = ~reducedMotion
  /\ carousel' = IF reducedMotion' THEN pause(Begin(carousel))
                 ELSE IF carousel.isCarouselMode THEN resume(Begin(carousel), reducedMotion')
                 ELSE Begin(carousel)
  /\ UNCHANGED notCarousel

\* a handleVisibilityChange that has the mode evaluated when the page is shown
handleVisibilityChangeEvaluating(c, isHidden) ==
  IF ~isHidden THEN requestAnimationFrame(c, Callback("checkAndToggleMode")) ELSE c

handleVisibilityChange(c, isHidden) ==
  IF ~isHidden /\ c.isCarouselMode /\ ~c.isPaused
  THEN [c EXCEPT !.visibilityTimers = @ + 1] ELSE c

handlePageFocus(c, isHidden) ==
  IF ~isHidden /\ c.isCarouselMode /\ ~c.isPaused /\ ~c.isManualScrolling
  THEN [c EXCEPT !.focusTimers = @ + 1] ELSE c

\* visibilitychange, with document.hidden as the event finds it: both
\* listeners run, in the order of their registration
visibilityChange(isHidden) ==
  /\ carousel.visibilityTimers < MaxDelayTimers
  /\ carousel.focusTimers < MaxDelayTimers
  /\ LET c1 == handleVisibilityChange(Begin(carousel), isHidden) IN
     carousel' = IF ~isHidden THEN handlePageFocus(c1, isHidden) ELSE c1
  /\ UNCHANGED <<reducedMotion, notCarousel>>

VisibilityChange == \E isHidden \in BOOLEAN : visibilityChange(isHidden)

\* the window gains the focus
windowFocus(isHidden) ==
  /\ carousel.focusTimers < MaxDelayTimers
  /\ carousel' = handlePageFocus(Begin(carousel), isHidden)
  /\ UNCHANGED <<reducedMotion, notCarousel>>

WindowFocus == \E isHidden \in BOOLEAN : windowFocus(isHidden)

VisibilityTimeout ==
  /\ carousel.visibilityTimers > 0
  /\ LET c1 == [Begin(carousel) EXCEPT !.visibilityTimers = @ - 1] IN
     carousel' = IF c1.isCarouselMode /\ ~c1.isPaused /\ ~c1.isManualScrolling
                 THEN startAnimation(c1) ELSE c1
  /\ UNCHANGED <<reducedMotion, notCarousel>>

FocusTimeout ==
  /\ carousel.focusTimers > 0
  /\ carousel' = startAnimation([Begin(carousel) EXCEPT !.focusTimers = @ - 1])
  /\ UNCHANGED <<reducedMotion, notCarousel>>

\* the browser runs the animation-frame callbacks that are pending;
\* finishing is the number of running manual scrolls, oldest first, whose
\* duration has elapsed at the frame's timestamp
Frame ==
  /\ carousel.rafQueue # << >>
  /\ \E finishing \in 0..manualLoops(carousel), width \in MeasuredWidths(carousel.rafQueue) :
       carousel' = runFrame([Begin(carousel) EXCEPT !.frame = carousel.rafQueue,
                                                    !.rafQueue = << >>,
                                                    !.finishing = finishing],
                            width)
  /\ UNCHANGED <<reducedMotion, notCarousel>>

CarouselIdle ==
  /\ reducedMotion = FALSE
  /\ firstSetOffsetWidth = initialSetOffsetWidth
  /\ carousel = Constructed(FALSE)

\* the window crosses a breakpoint of the style sheet: the buttons of a set
\* are laid out with another width
LayoutChange ==
  /\ firstSetOffsetWidth' \in SetOffsetWidths \ {firstSetOffsetWidth}
  /\ UNCHANGED <<carousel, reducedMotion, errors, formVars, validatorVars>>

\* the carousel under navigation and resizing of a responsive layout
NavigationNext ==
  \/ RapidPrevClick
  \/ RapidNextClick
  \/ ManualScrollTimeout
  \/ LayoutChange
  \/ WindowResize
  \/ ResizeTimeout
  \/ Frame

CarouselNext ==
  \/ WindowResize
  \/ ResizeTimeout
  \/ NavPrevClick
  \/ NavNextClick
  \/ ManualScrollTimeout
  \/ MouseEnter
  \/ MouseLeave
  \/ ReducedMotionChange
  \/ VisibilityChange
  \/ WindowFocus
  \/ VisibilityTimeout
  \/ FocusTimeout
  \/ Frame

(***************************************************************************)
(* showMessage, lines 1516-1543, for the text it is given: the text goes   *)
(* through FormValidator.sanitizeInput and is interpolated into the        *)
(* template assigned to innerHTML.  responseMessage.message is history:    *)
(* the argument of the call.                                               *)
(***************************************************************************)
MarkupChars == {"<", ">", "&"}

\* message texts: results of the server, response bodies that are not JSON
MessageTexts == Strings({"<", "b", ">", "&"}, MaxMessageLen)

NoMarkup == [message |-> << >>, type |-> "none", innerHTML |-> << >>]

notMessage == <<errors, now, localStorage, isSubmitting, netVars, uiVars, embedded, posted,
                ignoredInRun, runVars, validatorVars, carouselVars, draft, bridge, server>>

showMessage(message, type) ==
  [message |-> message, type |-> type, innerHTML |-> sanitizeInput(message)]

ShowMessage ==
  /\ \E message \in MessageTexts : \E type \in {"success", "error", "info"} :
       responseMessage' = showMessage(message, type)
  /\ UNCHANGED notMessage

\* hideMessage, line 1577: innerHTML = ''
MessageCleared ==
  /\ responseMessage.type # "none"
  /\ responseMessage' = NoMarkup
  /\ UNCHANGED notMessage

MessageNext ==
  \/ ShowMessage
  \/ MessageCleared

(***************************************************************************)
(* The draft store: input and change events of the form (lines 1131-1138), *)
(* the save timer, and a submission that ends in handleSuccess.            *)
(***************************************************************************)
notDraft == <<errors, now, localStorage, isSubmitting, netVars, uiVars, embedded, posted,
              ignoredInRun, runVars, validatorVars, carouselVars, elsewhere>>

\* the user changes one field: the listener calls debouncedSaveDraft
FieldInput ==
  /\ \E f \in Fields : \E text \in FieldTexts \ {draft.fields[f]} :
       draft' = debouncedSaveDraft([draft EXCEPT !.fields[f] = text, !.sinceSuccess = FALSE])
  /\ UNCHANGED notDraft

\* persistDebounceId fires
PersistTimeout ==
  /\ draft.persistDebounceId
  /\ draft' = saveDraft([draft EXCEPT !.persistDebounceId = FALSE])
  /\ UNCHANGED notDraft

\* the submission in flight ends with result.status === 'success'
SubmissionSucceeds ==
  /\ draft' = [handleSuccess(draft) EXCEPT !.sinceSuccess = TRUE]
  /\ UNCHANGED notDraft

DraftNext ==
  \/ FieldInput
  \/ PersistTimeout
  \/ SubmissionSucceeds

(***************************************************************************)
(* The iframe bridge, lines 962-1095, as it runs in a framed page.         *)
(* bridge.clock is Date.now() in ms, bridge.height the scroll height of    *)
(* the document, bridge.focus the id of the focused element and            *)
(* bridge.scrollY the scroll offset.  History: bridge.sent lists the       *)
(* messages posted to the parent by the last step, bridge.prevPostTs is    *)
(* the time of the IFRAME_HEIGHT message before the last one,              *)
(* bridge.forced says whether the last one was posted with force and       *)
(* bridge.posted is the height it carried.                                 *)
(***************************************************************************)
heightPostThrottleMs == 120
Origins == {"https://parent.example", "https://other.example"}
ElementIds == {<<"n", "a", "m", "e">>}
NoElement == << >>

\* what the parent can send: event.data
ParentData ==
  {[type |-> "not-an-object", id |-> << >>], [type |-> "REQUEST_HEIGHT", id |-> << >>],
   [type |-> "SCROLL_TO_TOP", id |-> << >>], [type |-> "UNKNOWN", id |-> << >>]} \cup
  {[type |-> "FOCUS_FIELD", id |-> id] :
     id \in {<<"n", "a", "m", "e">>, <<" ", "n", "a", "m", "e">>, <<"z">>, << >>}}

\* a bridge that posts the height whenever it is asked to
postHeightUnthrottled(b, force) ==
  IF ~embedded THEN b
  ELSE [b EXCEPT !.lastPostTs = b.clock, !.prevPostTs = b.lastPostTs, !.forced = force,
                 !.posted = b.height, !.sent = Append(@, "IFRAME_HEIGHT")]

postHeight(b, force) ==
  IF ~embedded \/ (~force /\ b.clock - b.lastPostTs < heightPostThrottleMs) THEN b
  ELSE [b EXCEPT !.lastPostTs = b.clock, !.prevPostTs = b.lastPostTs, !.forced = force,
                 !.posted = b.height, !.sent = Append(@, "IFRAME_HEIGHT")]

\* the module before it boots: let lastPostTs = 0
Unframed(allowedParentOrigins) ==
  [allowed |-> allowedParentOrigins, clock |-> 2 * BridgeTickMs, lastPostTs |-> 0,
   prevPostTs |-> NoItem, forced |-> FALSE, height |-> 1, posted |-> NoItem, focus |-> NoElement,
   scrollY |-> 0, sent |-> << >>]

\* an onParentMessage that acts on messages of every origin
onParentMessageAnyOrigin(b, origin, data) ==
  CASE data.type = "REQUEST_HEIGHT" -> postHeight(b, TRUE)
    [] data.type = "FOCUS_FIELD" /\ Trim(data.id) \in ElementIds ->
         [b EXCEPT !.focus = Trim(data.id), !.sent = Append(@, "FOCUS_APPLIED")]
    [] data.type = "SCROLL_TO_TOP" -> [b EXCEPT !.scrollY = 0]
    [] OTHER -> b

onParentMessage(b, origin, data) ==
  IF b.allowed # {} /\ origin \notin b.allowed THEN b
  ELSE CASE data.type = "REQUEST_HEIGHT" -> postHeight(b, TRUE)
         [] data.type = "FOCUS_FIELD" /\ Trim(data.id) \in ElementIds ->
              [b EXCEPT !.focus = Trim(data.id), !.sent = Append(@, "FOCUS_APPLIED")]
         [] data.type = "SCROLL_TO_TOP" -> [b EXCEPT !.scrollY = 0]
         [] OTHER -> b

\* IframeIntegration.notifyReady / notifySubmitStart / notifySubmitEnd /
\* notifySubmission
notify(b, type) ==
  LET posted1 == [b EXCEPT !.sent = Append(@, type)]
  IN IF ~embedded THEN b
     ELSE IF type = "FORM_SUBMIT_START" THEN posted1
     ELSE postHeight(posted1, TRUE)

\* the bridge has booted in a framed page: notifyReady has run
Booted(allowedParentOrigins) ==
  [notify(Unframed(allowedParentOrigins), "FORM_READY") EXCEPT !.sent = << >>]

notBridge == <<errors, now, localStorage, isSubmitting, netVars, uiVars, embedded, posted,
               ignoredInRun, runVars, validatorVars, carouselVars, draft, server,
               responseMessage>>

\* the ResizeObserver reports a new size of the form container
ResizeObserved ==
  /\ \E height \in {1, 2} \ {bridge.height} :
       bridge' = postHeight([bridge EXCEPT !.height = height, !.sent = << >>], FALSE)
  /\ UNCHANGED notBridge

\* the resize listener of the window, line 1092
IframeWindowResize ==
  /\ bridge' = postHeight([bridge EXCEPT !.sent = << >>], FALSE)
  /\ UNCHANGED notBridge

\* FormHandler notifies the parent of a lifecycle event
Notify ==
  /\ \E type \in {"FORM_SUBMIT_START", "FORM_SUBMITTED", "FORM_SUBMIT_END"} :
       bridge' = notify([bridge EXCEPT !.sent = << >>], type)
  /\ UNCHANGED notBridge

\* a message event arrives at the window
parentMessage(origin, data) ==
  /\ bridge' = onParentMessage([bridge EXCEPT !.sent = << >>], origin, data)
  /\ UNCHANGED notBridge

ParentMessage == \E origin \in Origins : \E data \in ParentData : parentMessage(origin, data)

\* the user scrolls the framed page down or moves the focus out of the form
UserActs ==
  /\ \/ bridge' = [bridge EXCEPT !.scrollY = 1, !.sent = << >>]
     \/ bridge' = [bridge EXCEPT !.focus = NoElement, !.sent = << >>]
  /\ UNCHANGED notBridge

BridgeTick ==
  /\ bridge.clock < (2 + MaxBridgeTicks) * BridgeTickMs
  /\ bridge' = [bridge EXCEPT !.clock = @ + BridgeTickMs, !.sent = << >>]
  /\ UNCHANGED notBridge

BridgeNext ==
  \/ ResizeObserved
  \/ IframeWindowResize
  \/ Notify
  \/ ParentMessage
  \/ UserActs
  \/ BridgeTick

(***************************************************************************)
(* The Apps Script web app, src/GoogleScript/Code.gs.  Every request is an *)
(* execution of doPost of its own; executions run concurrently and are     *)
(* interleaved at the calls of the Cache, Spreadsheet and Mail services.   *)
(* server.exec[n] is the execution for the n-th request received (the      *)
(* locals it still needs, and its response), server.clock is in s and      *)
(* server.cache holds the entries that have not expired.                   *)
(* Texts stay far below the 2000 characters at which sanitizeInput cuts.   *)
(***************************************************************************)
rateLimitWindowS == 60

RECURSIVE stripTags(_)
\* input.replace(/<[^>]*>/g, "")
stripTags(s) ==
  LET opens == {i \in 1..Len(s) : s[i] = "<"}
      open == CHOOSE i \in opens : \A k \in opens : i <= k
      closes == {j \in 1..Len(s) : j > open /\ s[j] = ">"}
      close == CHOOSE j \in closes : \A k \in closes : j <= k
  IN IF opens = {} \/ closes = {} THEN s
     ELSE SubSeq(s, 1, open - 1) \o stripTags(SubSeq(s, close + 1, Len(s)))

\* sanitizeInput of Code.gs: trim first, then remove the tags
serverSanitizeInput(input) == stripTags(Trim(input))

isValidEmail(email) == email # << >> /\ EmailPattern(Trim(email))

\* hashEmail_: the digest of the lower-cased, trimmed address; two addresses
\* have one key exactly if they agree after that normalisation
hashEmail_(email) ==
  Trim([i \in 1..Len(email) |->
          CASE email[i] = "A" -> "a" [] email[i] = "J" -> "j" [] OTHER -> email[i]])

\* the request bodies: formData after parseRequestData
Requests ==
  {[name |-> n, phone |-> <<"1">>, email |-> e, message |-> m, honeypot |-> h] :
     n \in {<<"J", "o">>, << >>, <<"<", "b", ">">>},
     e \in {<<"a", "@", "b", ".", "c">>, <<"A", "@", "b", ".", "c", " ">>,
            <<"x", "@", "b", ".", "c">>, <<"a", "b">>},
     m \in {<<"h", "i">>, <<" ">>},
     h \in {<< >>, <<"x">>, <<" ">>}}

\* an execution without locals and without a response
NoLocals == [pc |-> "none", key |-> << >>, honeypot |-> << >>, checked |-> 0,
             status |-> "none", message |-> "none"]

\* createResponse: the execution has returned, its locals are gone
Response(status, message) ==
  [NoLocals EXCEPT !.pc = "done", !.status = status, !.message = message]

\* catch (error): createResponse({status: "error", message: error.toString()})
Rejected(message) == Response("error", message)

Deployed == [exec |-> << >>, cache |-> {}, sheet |-> << >>, mails |-> 0, clock |-> 0]

\* cache.get(key)
cacheGet(sv, key) == {entry \in sv.cache : entry.key = key}

\* doPost from its entry to the return of cache.get in enforceRateLimit_, or
\* to the response when a check throws before that
doPostChecks(sv, req) ==
  LET name == serverSanitizeInput(req.name)
      phone == serverSanitizeInput(req.phone)
      email == serverSanitizeInput(req.email)
      message == serverSanitizeInput(req.message)
  IN IF req.honeypot # << >> /\ Trim(req.honeypot) # << >>
     THEN Rejected("Suspicious submission detected.")
     ELSE IF name = << >> \/ phone = << >> \/ email = << >> \/ message = << >>
     THEN Rejected("All fields (Name, Phone, Email, Message) are required.")
     ELSE IF ~isValidEmail(email)
     THEN Rejected("Invalid email address format.")
     ELSE IF cacheGet(sv, hashEmail_(email)) # {}
     THEN Rejected("Too many submissions. Please wait a minute and try again.")
     ELSE [NoLocals EXCEPT !.pc = "put", !.key = hashEmail_(email),
                              !.honeypot = req.honeypot, !.checked = sv.clock]

notServer == <<errors, now, localStorage, isSubmitting, netVars, uiVars, embedded, posted,
               ignoredInRun, runVars, validatorVars, carouselVars, draft, bridge,
               responseMessage>>

\* the n-th request arrives
doPost(n, req) ==
  /\ n \in 1..MaxRequests
  /\ n = Len(server.exec) + 1
  /\ server' = [server EXCEPT !.exec = Append(@, doPostChecks(server, req))]
  /\ UNCHANGED notServer

DoPost == \E n \in 1..MaxRequests : \E req \in Requests : doPost(n, req)

\* the service call on which execution n waits returns: cache.put (line 299),
\* sheet.appendRow (line 55), and MailApp.sendEmail, whose failure is caught
\* (lines 362-371), followed by the success response
ServiceCallReturns ==
  /\ \E n \in 1..Len(server.exec) :
       LET ex == server.exec[n] IN
       CASE ex.pc = "put" ->
              server' = [server EXCEPT
                           !.cache = {entry \in @ : entry.key # ex.key} \cup
                                     {[key |-> ex.key,
                                       expires |-> server.clock + rateLimitWindowS]},
                           !.exec[n].pc = "appendRow"]
         [] ex.pc = "appendRow" ->
              server' = [server EXCEPT
                           !.sheet = Append(@, [key |-> ex.key, checked |-> ex.checked]),
                           !.exec[n].pc = "sendEmail"]
         [] ex.pc = "sendEmail" ->
              \E sent \in {0, 1} :
                server' = [server EXCEPT
                             !.mails = @ + sent,
                             !.exec[n] = Response("success", "Thank you!")]
         [] OTHER -> FALSE
  /\ UNCHANGED notServer

ServerTick ==
  /\ server.clock < MaxServerTicks * ServerTickS
  /\ server' = [server EXCEPT
                  !.clock = @ + ServerTickS,
                  !.cache = {entry \in @ : server.clock + ServerTickS < entry.expires}]
  /\ UNCHANGED notServer

ServerNext ==
  \/ DoPost
  \/ ServiceCallReturns
  \/ ServerTick

(***************************************************************************)
(* Specifications.                                                         *)
(***************************************************************************)
\* no draft is stored, the page is not framed, no request has reached the server
Apart ==
  draft = NoDraft /\ bridge = Unframed({}) /\ server = Deployed /\ responseMessage = NoMarkup

Init == FormInit /\ FieldsEmpty /\ CarouselIdle /\ Apart

DraftInit ==
  /\ FormInit
  /\ ~embedded
  /\ FieldsEmpty
  /\ CarouselIdle
  /\ Apart

DraftSpec == DraftInit /\ [][DraftNext]_vars

ServerSpec == DraftInit /\ [][ServerNext]_vars

MessageSpec == DraftInit /\ [][MessageNext]_vars

BridgeInit ==
  /\ FormInit
  /\ embedded
  /\ FieldsEmpty
  /\ CarouselIdle
  /\ draft = NoDraft
  /\ server = Deployed
  /\ responseMessage = NoMarkup
  /\ \E allowedParentOrigins \in {{}, {"https://parent.example"}} :
       bridge = Booted(allowedParentOrigins)

BridgeSpec == BridgeInit /\ [][BridgeNext]_vars

Spec == Init /\ [][Next]_vars

\* the timers the browser has scheduled do fire
LiveSpec ==
  /\ Init
  /\ [][Next]_vars
  /\ WF_vars(RequestTimeout)
  /\ WF_vars(NoCorsTimeout)
  /\ WF_vars(SleepDone)

ValidatorInit ==
  /\ FormInit
  /\ Apart
  /\ ~embedded
  /\ CarouselIdle
  /\ returned = NotValidated
  /\ lastReturned = [f \in Fields |-> NotValidated]
  /\ \/ nameInput \in NameTexts /\ phoneInput = << >>
     \/ nameInput = << >> /\ phoneInput \in PhoneTexts

ValidatorSpec == ValidatorInit /\ [][ValidatorNext]_vars

CarouselInit ==
  /\ FormInit
  /\ Apart
  /\ ~embedded
  /\ FieldsEmpty
  /\ reducedMotion \in BOOLEAN
  /\ firstSetOffsetWidth = initialSetOffsetWidth
  /\ carousel = Constructed(reducedMotion)

CarouselSpec == CarouselInit /\ [][CarouselNext]_vars

NavigationSpec == CarouselInit /\ [][NavigationNext]_vars



(***************************************************************************)
(* Properties of the submission pipeline.                                  *)
(***************************************************************************)
InFlight == pc \in {"cors", "sleep", "body", "nocors"}
RunEnds == pc # "idle" /\ pc' = "idle"
Attempts == getItemInt(localStorage, attemptsKey)
LastTs == getItemInt(localStorage, cooldownKey)

\* C1: while a submission is in flight, a submit attempt (submit event or
\* Ctrl/Cmd+Enter) runs no validation, issues no request and changes no
\* pipeline, UI or rate-limit state, and at most one submitForm run is active.
C1_ReentrantSubmitIgnored ==
  /\ [](activeRuns <= 1)
  /\ [][(isSubmitting /\ (FormSubmitEvent \/ KeyboardShortcut)) =>
          UNCHANGED <<now, localStorage, errors, isSubmitting, netVars, uiVars, embedded,
                      posted, runVars>>]_vars

C1_Witness == isSubmitting /\ InFlight /\ ignoredInRun /\ activeRuns = 1

Validation == [form \in FormInputs |-> validateForm(NoErrors, form)]

\* C3: the no-cors request is sent at most once per submission, and never
\* after a cors attempt of that submission returned an ok response.
C3_NoCorsOnlyAfterCorsFailed == noCorsSent <= 1 /\ (corsOk => noCorsSent = 0)

\* C4 as stated: when the cors body was read, the success branch is taken if
\* and only if the body carries status = 'success', and every other body takes
\* the error branch.
C4_StatusDrivesBranch_Original ==
  (bodyRead # "none" /\ outcome # "none") =>
     /\ outcome = "success" <=> bodyRead = "status-success"
     /\ bodyRead # "status-success" => outcome = "error"

\* C4 as amended: when the cors body was read, the success branch is taken if
\* and only if the body is JSON with status 'success' or is text that is not
\* JSON; a body with status 'pending' takes the pending branch, the JSON value
\* null ends in the network-error branch, and every other body takes the
\* error branch.
C4_StatusDrivesBranch ==
  (bodyRead # "none" /\ outcome # "none") =>
     /\ outcome = "success" <=> bodyRead \in {"status-success", "not-json"}
     /\ outcome = "pending" <=> bodyRead = "status-pending"
     /\ outcome = "network" <=> bodyRead = "null"
     /\ outcome = "error" <=> bodyRead \in {"status-error", "no-status"}

C4_Witness == bodyRead = "status-pending" /\ outcome = "pending" /\ ~corsFailed /\ pc = "idle"

\* C5: a submit attempt that passes validation while lastTs + cooldown - now
\* is positive is refused: the 'Please wait Ns' error is shown, no request is
\* issued, no lifecycle message is posted, the persisted timestamp and
\* counter are unchanged and the pipeline is idle afterwards.
C5_RateLimitRefusal ==
  [][\A form \in FormInputs :
       (/\ ~isSubmitting
        /\ (LastTs + backoff(Attempts)) - now > 0
        /\ Validation[form].ok
        /\ validateAndSubmit(form))
       => /\ msg'.type = "error"
          /\ msg'.text = "please-wait"
          /\ msg'.secs = CeilDiv((LastTs + backoff(Attempts)) - now, 1000)
          /\ pc' = "idle"
          /\ ~isSubmitting'
          /\ ~loading'
          /\ UNCHANGED <<localStorage, posted, netVars, corsSent, noCorsSent, activeRuns,
                         reenableTimers, outcome>>]_vars

C5_Witness ==
  /\ embedded
  /\ msg.text = "please-wait"
  /\ msg.secs > 0
  /\ pc = "idle"
  /\ ~isSubmitting
  /\ Attempts = 2

\* C6: after N >= 1 consecutive failed submissions the cooldown applied to
\* the next attempt is min(60000, 5000 * 2^(N-1)) ms: the attempt is refused,
\* with the remaining seconds of that cooldown, exactly while the cooldown
\* has not elapsed since the last failure; pending outcomes and refusals do
\* not change N.
C6_BackoffAfterFailures ==
  [][\A form \in FormInputs :
       (/\ ~isSubmitting
        /\ consecFails >= 1
        /\ Validation[form].ok
        /\ validateAndSubmit(form))
       => LET cooldown == Min(60000, 5000 * 2 ^ (consecFails - 1))
              rem == (LastTs + cooldown) - now
          IN IF rem > 0
             THEN /\ msg'.text = "please-wait"
                  /\ msg'.secs = CeilDiv(rem, 1000)
                  /\ pc' = "idle"
                  /\ consecFails' = consecFails
             ELSE pc' = "cors"]_vars

C6_Witness ==
  /\ consecFails = 5
  /\ msg.text = "please-wait"
  /\ msg.secs = 60
  /\ pc = "idle"

\* C7: the attempts counter is written to zero exactly by a run that ends in
\* the success branch; a run that ends in a server-reported error or a
\* network error increases it by one; both set the persisted timestamp to
\* the current time, and nothing else writes the two values.
C7_AttemptsCounter ==
  [][/\ RunEnds =>
          /\ outcome' \in {"success", "pending", "error", "network"}
          /\ outcome' = "success" =>
                (localStorage'[attemptsKey] = 0 /\ localStorage'[cooldownKey] = now)
          /\ outcome' \in {"error", "network"} =>
                (localStorage'[attemptsKey] = Attempts + 1 /\ localStorage'[cooldownKey] = now)
     /\ (localStorage'[attemptsKey] # localStorage[attemptsKey] /\ localStorage'[attemptsKey] = 0)
           => (RunEnds /\ outcome' = "success")
     /\ localStorage' # localStorage => (RunEnds /\ outcome' # "pending")]_vars

C7_Witness == outcome = "network" /\ Attempts = 2 /\ LastTs = now /\ pc = "idle"

\* C8: a run that ends in the pending outcome shows an informational message
\* and leaves the persisted attempts counter and timestamp as they were
\* before the submission: no step of the run before its end writes them, and
\* the pending end does not either.
C8_PendingKeepsRateLimit ==
  /\ [][(pc # "idle" /\ pc' # "idle") => localStorage' = localStorage]_vars
  /\ [][(RunEnds /\ outcome' = "pending") =>
          /\ msg' = Message("info", "awaiting-confirmation")
          /\ localStorage' = localStorage]_vars

C8_Witness ==
  /\ outcome = "pending"
  /\ msg.type = "info"
  /\ Attempts = 1
  /\ LastTs < now
  /\ pc = "idle"

\* C9: every submission that enters Submitting eventually returns to Idle
\* with the loading state cleared.
C9_SubmissionReturnsToIdle == isSubmitting ~> (~isSubmitting /\ ~loading)

\* C10: a submit attempt that is not ignored runs all four field validations
\* (each entry of the error map is the result for the current content of its
\* field), proceeds only if all four passed, and otherwise leaves the
\* pipeline idle with no request issued and the rate-limit state unchanged.
C10_ValidationGate ==
  [][\A form \in FormInputs :
       (~isSubmitting /\ now' = now /\ reenableTimers' = reenableTimers /\ msg' # NoMsg /\
        validateAndSubmit(form)) =>
          LET isName == validateName(NoErrors, form.name)
              isPhone == validatePhone(NoErrors, form.phone)
              isEmail == validateEmail(NoErrors, form.email)
              isMessage == validateMessage(NoErrors, form.message)
              allValid == isName.ok /\ isPhone.ok /\ isEmail.ok /\ isMessage.ok
          IN /\ errors' = [name |-> isName.errors["name"], phone |-> isPhone.errors["phone"],
                           email |-> isEmail.errors["email"],
                           message |-> isMessage.errors["message"]]
             /\ allValid <=> msg'.text # "correct-errors"
             /\ ~allValid =>
                  /\ pc' = "idle"
                  /\ ~isSubmitting'
                  /\ UNCHANGED <<localStorage, netVars, corsSent, noCorsSent, posted,
                                 activeRuns, outcome>>]_vars

C10_Witness ==
  /\ msg.text = "correct-errors"
  /\ errors["name"] # NoError
  /\ errors["phone"] # NoError
  /\ errors["email"] = NoError
  /\ pc = "idle"
  /\ ~isSubmitting

\* C11: validateName returns true if and only if the trimmed name is
\* non-empty, has a length within [minLength, maxLength] and matches the
\* allowed pattern; otherwise it returns false and records exactly one
\* message for the name field, chosen in the order required, minimum
\* length, maximum length, pattern; the one-character name "J" gets the
\* minimum-length message.
C11_ValidateName ==
  [][nameBlur =>
       LET value == Trim(nameInput)
           passes == /\ value # << >>
                     /\ Len(value) >= nameMinLength
                     /\ Len(value) <= nameMaxLength
                     /\ NamePattern(value)
           message == IF value = << >> THEN "required"
                      ELSE IF Len(value) < nameMinLength THEN "minLength"
                      ELSE IF Len(value) > nameMaxLength THEN "maxLength"
                      ELSE IF ~NamePattern(value) THEN "pattern"
                      ELSE NoError
       IN /\ returned' = Bool(passes)
          /\ passes <=> message = NoError
          /\ errors' = [errors EXCEPT !["name"] = message]
          /\ nameInput = <<"J">> => errors'["name"] = "minLength"]_vars

C11_Witness ==
  /\ nameInput = <<"1">>
  /\ returned = "false"
  /\ errors["name"] = "minLength"
  /\ errors["phone"] = NoError

\* C12: validatePhone passes exactly when the trimmed value is non-empty,
\* matches the allowed character pattern and has a digit count within
\* [minDigits, maxDigits]: a digit count out of range fails a value that
\* matches the pattern, and a value that does not match the pattern fails
\* with a digit count in range.
C12_ValidatePhone ==
  [][phoneBlur =>
       LET value == Trim(phoneInput)
           matches == PhoneAllowedPattern(value)
           inRange == DigitCount(value) >= phoneMinDigits /\ DigitCount(value) <= phoneMaxDigits
       IN /\ returned' = Bool(value # << >> /\ matches /\ inRange)
          /\ returned' = "true" <=> errors'["phone"] = NoError
          /\ errors'["name"] = errors["name"]]_vars

C12_Witness ==
  /\ returned = "false"
  /\ errors["phone"] = "pattern"
  /\ ~PhoneAllowedPattern(Trim(phoneInput))
  /\ DigitCount(phoneInput) = phoneMinDigits
  /\ errors["name"] = NoError

(***************************************************************************)
(* Properties of the social carousel, under CarouselSpec.                  *)
(***************************************************************************)

\* C13: once performMeasurement has evaluated the widths, carousel mode is
\* active if and only if the content width (600) is strictly greater than
\* the wrapper width that it measured
C13_ModeIffContentWider ==
  carousel.lastEval # NoEval =>
    (carousel.isCarouselMode <=> carousel.lastEval.total > carousel.lastEval.width)

C13_Witness ==
  /\ carousel.lastEval = [total |-> 600, width |-> 400]
  /\ carousel.isCarouselMode
  /\ carousel.currentPosition = -(firstSetOffsetWidth + trackGap)

\* C14: the automatic loop and a manual scroll never run concurrently: no
\* frame of the automatic loop advances currentPosition while an
\* animateScroll loop is still in progress, nor after a manual navigation
\* before the manual resume timer has fired
C14_AutoAndManualNeverConcurrent == ~carousel.overlap /\ ~carousel.beforeResume

\* C15: while reduced motion is preferred, no frame of the automatic loop
\* advances currentPosition
C15_NoAutoScrollUnderReducedMotion == ~carousel.underReducedMotion

\* C16: wraparound is lossless: every correction that a frame applies to
\* currentPosition, in the automatic loop or in a manual scroll, changes it
\* by exactly one setWidthWithGap
C16_WraparoundLossless ==
  \A p \in carousel.corrections : p[2] - p[1] = carousel.setWidthWithGap

\* C17: when the manual resume timer fires with carousel mode active and
\* reduced motion not preferred, automatic scrolling is running again
\* (not paused, not locked by manual scrolling, one frame of the automatic
\* loop requested), whatever the paused flag was; and every navigation
\* stops the automatic loop and leaves exactly the newly set resume timer
\* pending.  Each half is stated by its contrapositive: a step that does not
\* end so is not such a step.
C17_ResumeAfterManualNavigation ==
  [][/\ ~(/\ ~carousel'.isPaused
           /\ ~carousel'.isManualScrolling
           /\ carousel'.animationFrame
           /\ autoLoops(carousel') = 1
           /\ carousel'.manualScrollTimeout = NoTimer)
          => ~(/\ carousel.isCarouselMode /\ carousel.carouselTrack /\ ~reducedMotion
               /\ ManualScrollTimeout)
     /\ ~(/\ carousel'.manualScrollTimeout = PendingTimer
           /\ carousel'.isManualScrolling
           /\ carousel'.isPaused
           /\ autoLoops(carousel') = 0)
          => ~(/\ carousel.isCarouselMode /\ carousel.carouselTrack
               /\ carousel.buttonWidth # 0
               /\ NavPrevClick \/ NavNextClick)]_vars

\* the timer has fired after a navigation whose scroll has not yet had its
\* last frame, and the automatic loop has been requested
C17_Witness ==
  /\ carousel.isCarouselMode
  /\ ~reducedMotion
  /\ carousel.manualScrollTimeout = NoTimer
  /\ manualLoops(carousel) = 1
  /\ autoLoops(carousel) = 1
  /\ carousel.animationFrame
  /\ ~carousel.isPaused
  /\ ~carousel.isManualScrolling

\* C18: after destroyCarousel has run, no animation-frame callback that was
\* requested before it, of the automatic loop or of a manual scroll, runs
\* and writes currentPosition
C18_DestroyCancelsPendingFrames == ~carousel.staleWrite

\* C19: no two instances of the same timer are pending at once: at most one
\* resize debounce timer and at most one visibility/focus resume delay timer
C19_OneTimerOfEachKind ==
  /\ carousel.resizeTimers <= 1
  /\ carousel.visibilityTimers + carousel.focusTimers <= 1

\* C20: a pointer enter or leave whose handler finds no hover capability
\* changes neither the paused flag nor the automatic loop; with hover
\* capability, enter pauses the automatic loop, and leave resumes it when
\* carousel mode is active and reduced motion is not preferred.  Each part
\* is stated by its contrapositive.
C20_HoverOnlyOnHoverDevices ==
  [][/\ ~(/\ carousel'.isPaused = carousel.isPaused
           /\ carousel'.animationFrame = carousel.animationFrame
           /\ carousel'.rafQueue = carousel.rafQueue
           /\ carousel'.currentPosition = carousel.currentPosition)
          => ~(mouseEnter(FALSE) \/ mouseLeave(FALSE))
     /\ ~(/\ carousel'.isPaused
           /\ ~carousel'.animationFrame
           /\ autoLoops(carousel') = 0)
          => ~mouseEnter(TRUE)
     /\ ~(/\ ~carousel'.isPaused
           /\ carousel'.animationFrame
           /\ autoLoops(carousel') = 1)
          => ~(/\ carousel.isCarouselMode /\ carousel.carouselTrack /\ ~reducedMotion
               /\ mouseLeave(TRUE))]_vars

\* the automatic loop of an active carousel, paused with nothing else
\* pending, as a pointer enter on a hover-capable device leaves it
C20_Witness ==
  /\ carousel.isCarouselMode
  /\ ~reducedMotion
  /\ carousel.isPaused
  /\ ~carousel.animationFrame
  /\ ~carousel.isManualScrolling
  /\ carousel.manualScrollTimeout = NoTimer
  /\ carousel.rafQueue = << >>
  /\ carousel.currentPosition = -1

(***************************************************************************)
(* Properties of the draft store.                                          *)
(***************************************************************************)
\* C25: after handleSuccess, and until the next input event is handled, the
\* draft key of localStorage holds no draft, whatever the order of input
\* events, the save timer and the end of the submission.
C25_SuccessClearsDraft == draft.sinceSuccess => draft.stored = {}

(***************************************************************************)
(* Properties of the web app.                                              *)
(***************************************************************************)
\* C21: a request with a non-empty honeypot field is rejected whatever its
\* other fields are: no execution with such a field gets past the checks
\* of doPost to record a rate-limit entry, append a row or send a mail.
C21_HoneypotRejected ==
  \A n \in 1..Len(server.exec) :
    server.exec[n].pc \in {"put", "appendRow", "sendEmail"} => server.exec[n].honeypot = << >>

\* C22: of the requests for one address (compared without case and outer
\* whitespace), at most one per 60 s passes the rate limit, concurrent
\* executions included: two rows of the sheet with one key stem from
\* checks at least 60 s apart.
C22_OneRowPerWindow ==
  \A i, j \in 1..Len(server.sheet) :
    (i < j /\ server.sheet[i].key = server.sheet[j].key) =>
      Abs(server.sheet[j].checked - server.sheet[i].checked) >= rateLimitWindowS

C24_ParentCommandsByOrigin ==
  [][\A origin \in Origins : \A data \in ParentData :
       parentMessage(origin, data) =>
         IF bridge.allowed = {} \/ origin \in bridge.allowed
         THEN /\ data.type = "REQUEST_HEIGHT" =>
                   bridge'.sent = <<"IFRAME_HEIGHT">> /\ bridge'.lastPostTs = bridge.clock
              /\ (data.type = "FOCUS_FIELD" /\ Trim(data.id) \in ElementIds) =>
                   bridge'.sent = <<"FOCUS_APPLIED">> /\ bridge'.focus = Trim(data.id)
              /\ data.type = "SCROLL_TO_TOP" => bridge'.scrollY = 0
         ELSE bridge' = [bridge EXCEPT !.sent = << >>]]_vars

C24_Witness ==
  /\ bridge.allowed # {}
  /\ bridge.sent = <<"FOCUS_APPLIED">>
  /\ bridge.focus \in ElementIds
  /\ bridge.scrollY = 1

(***************************************************************************)
(* Properties of the message element.                                      *)
(***************************************************************************)
\* C27: every text shown passes the sanitizing step before it is rendered,
\* so that a text containing markup never reaches the HTML of the message
\* element unchanged.
C27_MessageMarkupSanitized ==
  (\E i \in 1..Len(responseMessage.message) : responseMessage.message[i] \in MarkupChars) =>
    responseMessage.innerHTML # responseMessage.message

(***************************************************************************)
(* Properties of the retry loop and of the end of a run.                   *)
(***************************************************************************)
\* C26: a run issues at most maxAttempts fetches in cors mode; a further
\* one is issued only when every earlier one of the run has failed
\* (rejected or answered with a status that is not ok), and none once a
\* response was ok.
C26_CorsAttemptsBounded ==
  [][/\ corsSent' <= retryMaxAttempts
     /\ (corsSent > 0 /\ corsSent' > corsSent) =>
          (corsSent' = corsSent + 1 /\ attempt = corsSent /\ ~corsOk /\ pc = "sleep")]_vars

C26_Witness == corsSent = retryMaxAttempts /\ attempt = retryMaxAttempts - 1 /\ pc = "cors"

C29_TimeoutMessage ==
  [][(RunEnds /\ corsAborted) => (msg'.text = "timed-out" /\ Attempts' = Attempts + 1)]_vars

\* C30: in a framed page every run brackets its result: when FORM_SUBMIT_END
\* is posted, FORM_SUBMITTED has been posted since FORM_SUBMIT_START.
C30_ResultPostedBeforeEnd ==
  (posted # << >> /\ posted[Len(posted)] = "FORM_SUBMIT_END") =>
    \E i \in 1..Len(posted) : posted[i] \in {"FORM_SUBMITTED:true", "FORM_SUBMITTED:false"}

\* C31: the messages to the parent bracket each submission: every posted
\* FORM_SUBMIT_START is eventually followed by a FORM_SUBMIT_END.
StartOpen ==
  posted # << >> /\ posted[Len(posted)] # "FORM_SUBMIT_END"
C31_StartLeadsToEnd == StartOpen ~> ~StartOpen

AllChecksPassed(sv, req) ==
  /\ req.honeypot = << >>
  /\ \A f \in {req.name, req.phone, req.email, req.message} : serverSanitizeInput(f) # << >>
  /\ isValidEmail(serverSanitizeInput(req.email))
  /\ cacheGet(sv, hashEmail_(serverSanitizeInput(req.email))) = {}

\* the executions that have appended their row
Appended(sv) ==
  {n \in 1..Len(sv.exec) : sv.exec[n].pc = "sendEmail" \/ sv.exec[n].status = "success"}

\* C32: doPost answers 'success' exactly when it appended one row, which it
\* does exactly when all checks passed (empty honeypot, four fields non-empty
\* after sanitization, valid email format, no rate-limit entry); otherwise it
\* answers 'error' and appends nothing, and the outcome of the notification
\* mail changes neither the row nor the success response.
C32_SuccessIffRowIffChecks ==
  [][/\ \A n \in 1..MaxRequests : \A req \in Requests :
          doPost(n, req) =>
            /\ AllChecksPassed(server, req) <=> server'.exec[n].pc = "put"
            /\ ~AllChecksPassed(server, req) <=> server'.exec[n].status = "error"
     /\ Len(server'.sheet) = Cardinality(Appended(server'))
     /\ \A n \in 1..Len(server.exec) :
          /\ server.exec[n].status # "none" => server'.exec[n] = server.exec[n]
          /\ (server.exec[n].pc = "sendEmail" /\ server'.exec[n] # server.exec[n]) =>
               (server'.exec[n].status = "success" /\ server'.sheet = server.sheet)]_vars

\* C37: in a framed page the parent learns the final height of the content,
\* also when the last change of size came less than heightPostThrottleMs
\* after a post: once that interval has passed since the last post, the
\* height last posted is the height of the content.
C37_ParentLearnsFinalHeight ==
  (embedded /\ bridge.clock - bridge.lastPostTs >= heightPostThrottleMs) =>
    bridge.posted = bridge.height

\* C38: since the last reset() the error map holds an entry for a field
\* exactly when the most recent validation of that field returned false, and
\* validating one field leaves the entries of the other fields unchanged.
C38_ErrorsMirrorLastValidation ==
  [][/\ \A f \in Fields : lastReturned'[f] = "false" <=> errors'[f] # NoError
     /\ nameBlur => \A f \in Fields \ {"name"} : errors'[f] = errors[f]
     /\ phoneBlur => \A f \in Fields \ {"phone"} : errors'[f] = errors[f]]_vars

\* a name that failed validation was replaced and validated again, while the
\* phone field still has the error of its own last validation
C38_Witness ==
  /\ lastReturned["name"] = "true"
  /\ errors["name"] = NoError
  /\ nameInput = ValidForm.name
  /\ lastReturned["phone"] = "false"
  /\ errors["phone"] = "pattern"
  /\ returned = "true"

(***************************************************************************)
(* Further properties of the social carousel, under CarouselSpec.          *)
(***************************************************************************)
\* C34: at most one automatic animation-frame callback is pending at any
\* time: whenever one is pending, animationFrame holds its id, so that every
\* call of startAnimation cancels it before it requests the next.
C34_OneAutoFramePending ==
  /\ autoLoops(carousel) <= 1
  /\ autoLoops(carousel) = 1 => carousel.animationFrame

\* startAnimation was called by the focus timer while the frame of the
\* running loop was pending, and one frame is pending after it
C34_Witness ==
  /\ autoLoops(carousel) = 1
  /\ carousel.rafQueue = <<Callback("animate")>>
  /\ carousel.focusTimers = 0
  /\ carousel.visibilityTimers = 1
  /\ ~carousel.isPaused

\* C35: at most one manual scroll is in progress at any time: a click on
\* prev or next during an unfinished scroll does not leave two animateScroll
\* loops that write currentPosition.
C35_OneManualLoop == manualLoops(carousel) <= 1

\* C36: in carousel mode with known dimensions the position of the track
\* stays within one set width: -setWidthWithGap <= currentPosition <= 0
\* after every automatic and manual frame, also after a resize has
\* recomputed the dimensions.
C36_PositionWithinOneSet ==
  (carousel.isCarouselMode /\ carousel.setWidthWithGap > 0) =>
    /\ -carousel.setWidthWithGap <= carousel.currentPosition
    /\ carousel.currentPosition <= 0

\* carousel mode is active and the automatic loop runs
ActiveAndRunning ==
  /\ carousel.isCarouselMode
  /\ ~carousel.isPaused
  /\ carousel.animationFrame
  /\ autoLoops(carousel) = 1

\* behind every pending measurement of an evaluation that took the carousel
\* down, a resumption is queued: the inner callback of handleResize later in
\* the same frame, or its outer callback
ResumptionQueued(q) ==
  \A i \in 1..Len(q) :
    q[i].kind = "performMeasurement" =>
      \E j \in 1..Len(q) : \/ q[j].kind = "ensureOuter"
                           \/ q[j].kind = "ensureInner" /\ j > i

HasInner(q) == \E i \in 1..Len(q) : q[i].kind = "ensureInner"

HasMeasurement(q) == \E i \in 1..Len(q) : q[i].kind = "performMeasurement"

\* the evaluation has completed and, if it found the content wider than the
\* container, carousel mode is active
Remeasured(c) ==
  c.lastEval # NoEval /\ (c.lastEval.total > c.lastEval.width => c.isCarouselMode)

\* what every Frame step leaves as it is
TimersUnchanged ==
  /\ reducedMotion' = reducedMotion
  /\ carousel'.resizeTimers = carousel.resizeTimers
  /\ carousel'.manualScrollTimeout = carousel.manualScrollTimeout
  /\ carousel'.visibilityTimers = carousel.visibilityTimers
  /\ carousel'.focusTimers = carousel.focusTimers

\* C39: the resize events of a burst are debounced into one pending timer,
\* hence one mode evaluation; an evaluation that takes the active carousel
\* down to measure has the resumption of handleResize queued behind it; the
\* next frame completes the measurement and, if the content still overflows,
\* ends with carousel mode active; and the frame that runs the last
\* resumption pending leaves an active carousel with its automatic loop
\* running, unless reduced motion is preferred.
C39_ResizeRestoresCarousel ==
  [][/\ carousel'.resizeTimers <= 1
     /\ ResumptionQueued(carousel'.rafQueue)
     /\ ~Remeasured(carousel') =>
          ~(HasMeasurement(carousel.rafQueue) /\ TimersUnchanged /\ Frame)
     /\ ~ActiveAndRunning' =>
          ~(/\ HasInner(carousel.rafQueue)
            /\ carousel'.isCarouselMode
            /\ resizePasses(carousel') = 0
            /\ ~reducedMotion
            /\ TimersUnchanged
            /\ Frame)]_vars

\* the second frame after a resize evaluation has restarted the automatic
\* loop of the carousel that the evaluation rebuilt
C39_Witness ==
  /\ ActiveAndRunning
  /\ ~reducedMotion
  /\ carousel.resizeTimers = 0
  /\ carousel.rafQueue = <<Callback("animate")>>
  /\ carousel.currentPosition = -(carousel.setWidthWithGap)
  /\ carousel.manualScrollTimeout = PendingTimer

\* a mode evaluation is under way: its callback or the resize timer is pending
ModeEvaluationPending(c) ==
  \/ c.resizeTimers > 0
  \/ \E i \in 1..Len(c.rafQueue) :
       c.rafQueue[i].kind \in {"checkAndToggleMode", "performMeasurement"}

\* C40 as stated: the mode is re-evaluated when the page becomes visible or
\* the window gains the focus: if the wrapper then has a width for which the
\* fit/overflow condition differs from the current mode, the handler toggles
\* the mode to match or starts a mode evaluation.
C40_ModeReevaluatedOnReturn_Original ==
  [][\A width \in ContainerWidths :
       (/\ needsCarousel(totalWidth, width) # carousel.isCarouselMode
        /\ visibilityChange(FALSE) \/ windowFocus(FALSE)) =>
         \/ carousel'.isCarouselMode = needsCarousel(totalWidth, width)
         \/ ModeEvaluationPending(carousel')]_vars

\* the callbacks of q that evaluate the mode
Evaluations(q) ==
  SelectSeq(q, LAMBDA e : e.kind \in {"checkAndToggleMode", "performMeasurement"})

\* the mode and everything a mode evaluation would change are as before
ModeUntouched ==
  /\ carousel'.isCarouselMode = carousel.isCarouselMode
  /\ carousel'.carouselTrack = carousel.carouselTrack
  /\ carousel'.isDestroying = carousel.isDestroying
  /\ carousel'.setWidthWithGap = carousel.setWidthWithGap
  /\ carousel'.lastEval = NoEval
  /\ Evaluations(carousel'.rafQueue) = Evaluations(carousel.rafQueue)

\* C40: a visibility change and a focus of the window leave the mode as it
\* is and start no mode evaluation, nor do the timers they set; the mode is
\* evaluated at setup and after resize only.  What the timers do is restart
\* the automatic loop of a carousel that is active and not paused (the
\* visibility timer: and not scrolling manually).  Each part is stated by
\* its contrapositive.
C40_ModeReevaluatedOnReturn ==
  [][/\ ~ModeUntouched =>
          ~(\/ visibilityChange(TRUE) \/ visibilityChange(FALSE)
            \/ windowFocus(TRUE) \/ windowFocus(FALSE)
            \/ VisibilityTimeout \/ FocusTimeout)
     /\ ~ActiveAndRunning' =>
          ~(/\ carousel.isCarouselMode /\ carousel.carouselTrack /\ ~carousel.isPaused
            /\ \/ FocusTimeout
               \/ ~carousel.isManualScrolling /\ VisibilityTimeout)]_vars

\* the page was shown while the carousel was active, the visibility timer
\* has fired and the focus timer is pending: the carousel is as it was, its
\* loop runs, and no evaluation is under way
C40_Witness ==
  /\ ActiveAndRunning
  /\ carousel.visibilityTimers = 0
  /\ carousel.focusTimers = 1
  /\ ~ModeEvaluationPending(carousel)
  /\ ~carousel.isDestroying

====
